---- MODULE Spec2Model ----
(***************************************************************************)
(* A model of the window-management state machine of dwm (vain's fork):    *)
(* monitors, per-monitor client lists and focus stacks, tag-sets, focus,   *)
(* fullscreen state and the geometry computed by the layouts.              *)
(*                                                                         *)
(* Every C function that changes the model state is an operator from a     *)
(* world record (the values of all global variables and of every Monitor   *)
(* and Client structure) to the world record after the call; an event      *)
(* handler is one action that commits the world its handler returns.       *)
(* Pointers are window ids (clients) and list positions (monitors); the    *)
(* null pointer is NULL.  The intrusive lists are kept as the next/snext   *)
(* fields of the clients, as in the source.                                *)
(***************************************************************************)
EXTENDS Integers, Sequences, FiniteSets, TLC

(***************************************************************************)
(* Bounds of the model                                                     *)
(***************************************************************************)
\* number of X windows there are
NumWin == 3
\* number of them that ask to be mapped where every handler may run
MainWin == 2
\* number of tags (LENGTH(tags)) of the bounded configuration
NumTags == 2
\* bar height bh = font height + 3 (depends on the font loaded at run time)
BarHeight == 4
\* width and height of one Xinerama screen
ScreenW == 200
ScreenH == 124
\* number of handlers run where every handler may run
MaxSteps == 4
\* the same where only the handlers around view() run
ViewSteps == 5
\* the same where only the handlers around focusstack() run
FocusSteps == 7
\* the same where only the handlers around setfullscreen() run
FullscreenSteps == 5
\* the same where only the handlers that resize clients run
HintSteps == 4
\* the same where only the handlers around updategeom() run
DrainSteps == 5
\* the same where only the handlers that change tags and tag-sets run
TagSteps == 5
\* the same where only the handlers that move clients in and between the
\* lists run
MoveSteps == 5
\* the same where only the handlers that manage, unmanage and focus clients
\* run
ManageSteps == 4
\* the same where the loops of movemouse() and resizemouse() run
MouseSteps == 5
\* handlers in a run from the program's start
ProcSteps == 5
\* the same where monitors come and go
MonSteps == 4
\* the same for _NET_WM_STATE messages and setmfact()
NetSteps == 4
\* the same for the handlers tile() depends on
TileSteps == 6
\* the same where windows of several sizes are mapped
PlaceSteps == 3
\* the same for the handlers around shiftview()
ShiftSteps == 5
\* the tag counts the rotation of shiftmask() is checked for
MaxTagCount == 4
\* the same for the handlers that move the selection between monitors
SelSteps == 4
\* the same for the handlers around swapfocus()
SwapSteps == 5
\* the same for the handlers before quit() and cleanup()
QuitSteps == 6

(***************************************************************************)
(* Program constants (config.def.h)                                        *)
(***************************************************************************)
borderpx == 5
snap == 32
uselessgap == 5
startuptags == 1
nmaster_dynamic_max == 4
nmaster == 0
\* mfact = 0.55, kept in hundredths
mfact == 55

NULL == 0
Win == 1..NumWin
\* the value of a pointer to a Client that free() has released and calloc()
\* has not handed out again
Freed == NumWin + 1
\* unsigned int wraps modulo UIntRange.  The values TLC computes with are
\* 32-bit signed, so the modelled word is 30 bits wide: every mask the
\* program stores is below 1 << LENGTH(tags), and a difference that wraps in
\* tile() still lands far above every coordinate.
UIntRange == 1073741824

(***************************************************************************)
(* C arithmetic                                                            *)
(***************************************************************************)
MAX(a, b) == IF a > b THEN a ELSE b
MIN(a, b) == IF a < b THEN a ELSE b
Abs(a) == IF a < 0 THEN -a ELSE a

\* conversion of an int to unsigned int, and back
U32(a) == a % UIntRange
ToInt(u) ==
    IF u % UIntRange >= UIntRange \div 2 THEN (u % UIntRange) - UIntRange
    ELSE u % UIntRange

\* integer division and remainder of C99: truncation toward zero
CDiv(a, b) == IF (a >= 0) = (b > 0) THEN Abs(a) \div Abs(b) ELSE -(Abs(a) \div Abs(b))
CRem(a, b) == a - b * CDiv(a, b)

RECURSIVE BitAnd(_, _)
BitAnd(a, b) ==
    IF a = 0 \/ b = 0 THEN 0
    ELSE (IF a % 2 = 1 /\ b % 2 = 1 THEN 1 ELSE 0) + 2 * BitAnd(a \div 2, b \div 2)

RECURSIVE BitOr(_, _)
BitOr(a, b) ==
    IF a = 0 THEN b
    ELSE IF b = 0 THEN a
    ELSE (IF a % 2 = 1 \/ b % 2 = 1 THEN 1 ELSE 0) + 2 * BitOr(a \div 2, b \div 2)

RECURSIVE BitXor(_, _)
BitXor(a, b) ==
    IF a = 0 THEN b
    ELSE IF b = 0 THEN a
    ELSE (IF (a % 2) # (b % 2) THEN 1 ELSE 0) + 2 * BitXor(a \div 2, b \div 2)

RECURSIVE Pow2(_)
Pow2(n) == IF n <= 0 THEN 1 ELSE 2 * Pow2(n - 1)

\* x << n and x >> n on unsigned int (0 <= n < 32)
Shl(x, n) == (x * Pow2(n)) % UIntRange
Shr(x, n) == x \div Pow2(n)

\* #define TAGMASK ((1 << LENGTH(tags)) - 1)
TAGMASK == Pow2(NumTags) - 1
\* ~0 as unsigned int
AllOnes == UIntRange - 1

(***************************************************************************)
(* State                                                                   *)
(***************************************************************************)
VARIABLES
    mons,        \* the monitor list: a sequence of Monitor records
    cl,          \* the Client structure of every window (cl[w].managed)
    selmon,      \* index of the selected monitor
    prevmon,     \* index of the previously selected monitor, or NULL
    prevclient,  \* the client last unfocused, or NULL
    sw, sh,      \* X display screen geometry
    gappx,       \* the current gap
    pump,        \* the nested event loop of movemouse()/resizemouse(): its
                 \* kind ("idle" outside of it) and its local variables
    proc,        \* the process and its X connection: phase ("exec" before
                 \* main(), "run", "exit"), exit status, message printed,
                 \* server grab, installed error handler, and the requests
                 \* of the current handler that C23 is about
    hist         \* history of the last handler(s), used to state the claims

vars == <<mons, cl, selmon, prevmon, prevclient, sw, sh, gappx, pump, proc, hist>>

\* the world: the program state as one record
World ==
    [mons |-> mons, cl |-> cl, selmon |-> selmon, prevmon |-> prevmon,
     prevclient |-> prevclient, sw |-> sw, sh |-> sh, gappx |-> gappx]

\* the locals of movemouse()/resizemouse() while no such loop runs
NoPump == [kind |-> "idle", c |-> 0, ocx |-> 0, ocy |-> 0, x |-> 0, y |-> 0]

\* a step of the program (while hist.left steps are still to run, if the run
\* is bounded) leaves world S
Settle(S) ==
    /\ hist.bounded => hist.left > 0
    /\ mons' = S.mons
    /\ cl' = S.cl
    /\ selmon' = S.selmon
    /\ prevmon' = S.prevmon
    /\ prevclient' = S.prevclient
    /\ sw' = S.sw
    /\ sh' = S.sh
    /\ gappx' = S.gappx

\* the process before main()
Exec ==
    [phase |-> "exec", status |-> -1, out |-> "", opened |-> FALSE,
     grabbed |-> FALSE, pointer |-> FALSE, handler |-> "xlib", reqs |-> <<>>,
     running |-> TRUE]

\* the process in run(): display open, xerror() installed by checkotherwm()
Running ==
    [phase |-> "run", status |-> -1, out |-> "", opened |-> TRUE,
     grabbed |-> FALSE, pointer |-> FALSE, handler |-> "xerror", reqs |-> <<>>,
     running |-> TRUE]

\* a handler starts: none of its requests made yet
Fresh(X) == [X EXCEPT !.reqs = <<>>]

\* run() without the test of running
rundispatches_always(X) == X.phase = "run"

\* run(): while(running && !XNextEvent(dpy, &ev)) goes on to another event
rundispatches(X) == X.phase = "run" /\ X.running

\* a handler called from run() runs and leaves world S and process X; run()
\* dispatches no event while movemouse() or resizemouse() has not returned
Serve(S, X) ==
    /\ rundispatches(proc)
    /\ pump.kind = "idle"
    /\ pump' = pump
    /\ proc' = X
    /\ Settle(S)

\* a handler that neither grabs the server nor changes the error handler
Commit(S) == Serve(S, Fresh(proc))

\* a turn of the loop of movemouse()/resizemouse() leaves world S and the
\* locals P
Turn(S, P) ==
    /\ proc.phase = "run"
    /\ pump.kind # "idle"
    /\ pump' = P
    /\ proc' = Fresh(proc)
    /\ Settle(S)

\* a Client structure after calloc(): all fields zero
NoClient ==
    [managed |-> FALSE, next |-> NULL, snext |-> NULL, mon |-> NULL, tags |-> 0,
     x |-> 0, y |-> 0, w |-> 0, h |-> 0,
     oldx |-> 0, oldy |-> 0, oldw |-> 0, oldh |-> 0,
     bw |-> 0, oldbw |-> 0,
     basew |-> 0, baseh |-> 0, incw |-> 0, inch |-> 0,
     maxw |-> 0, maxh |-> 0, minw |-> 0, minh |-> 0,
     mina |-> <<0, 1>>, maxa |-> <<0, 1>>,
     isfixed |-> FALSE, isfloating |-> FALSE, isurgent |-> FALSE,
     neverfocus |-> FALSE, oldstate |-> FALSE, isfullscreen |-> FALSE,
     sizehints |-> FALSE]

\* Monitor *createmon(void)
createmon ==
    [num |-> 0, mx |-> 0, my |-> 0, mw |-> 0, mh |-> 0,
     wx |-> 0, wy |-> 0, ww |-> 0, wh |-> 0, by |-> 0,
     seltags |-> 0, tagset |-> <<startuptags, startuptags>>,
     mfact |-> mfact, nmaster |-> nmaster,
     nmaster_dynamic_max |-> nmaster_dynamic_max,
     showbar |-> TRUE, topbar |-> TRUE,
     lt |-> "tile",
     clients |-> NULL, sel |-> NULL, stack |-> NULL]

\* the active tag-set m->tagset[m->seltags]
ActiveTags(S, m) == S.mons[m].tagset[S.mons[m].seltags + 1]
PrevTags(S, m) == S.mons[m].tagset[2 - S.mons[m].seltags]

\* #define ISVISIBLE(C) ((C->tags & C->mon->tagset[C->mon->seltags]))
ISVISIBLE(S, c) == BitAnd(S.cl[c].tags, ActiveTags(S, S.cl[c].mon)) # 0

\* #define WIDTH(X), HEIGHT(X)
WIDTH(S, c) == S.cl[c].w + 2 * S.cl[c].bw
HEIGHT(S, c) == S.cl[c].h + 2 * S.cl[c].bw

\* whether the layout of monitor m has an arrange function (m->lt->arrange)
HasArrange(S, m) == S.mons[m].lt # "float"

(***************************************************************************)
(* The intrusive lists                                                     *)
(***************************************************************************)
\* the clients reached from c along next, at most n of them
RECURSIVE Along(_, _, _)
Along(S, c, n) ==
    IF c = NULL \/ n = 0 THEN <<>> ELSE <<c>> \o Along(S, S.cl[c].next, n - 1)

\* the clients reached from c along snext, at most n of them
RECURSIVE SAlong(_, _, _)
SAlong(S, c, n) ==
    IF c = NULL \/ n = 0 THEN <<>> ELSE <<c>> \o SAlong(S, S.cl[c].snext, n - 1)

\* m->clients and m->stack as sequences; a list longer than NumWin has a cycle
ClientList(S, m) == Along(S, S.mons[m].clients, NumWin + 1)
StackList(S, m) == SAlong(S, S.mons[m].stack, NumWin + 1)

SeqToSet(s) == {s[i] : i \in 1..Len(s)}

\* the first element of s that satisfies P, or NULL
FirstWith(S, s, P(_, _)) ==
    IF \E i \in 1..Len(s) : P(S, s[i])
    THEN s[CHOOSE i \in 1..Len(s) : P(S, s[i]) /\ \A j \in 1..(i - 1) : ~P(S, s[j])]
    ELSE NULL

\* the last element of s that satisfies P, or NULL
LastWith(S, s, P(_, _)) ==
    IF \E i \in 1..Len(s) : P(S, s[i])
    THEN s[CHOOSE i \in 1..Len(s) : P(S, s[i]) /\ \A j \in (i + 1)..Len(s) : ~P(S, s[j])]
    ELSE NULL

\* the first visible client of the focus stack of monitor m, or NULL:
\* for(t = m->stack; t && !ISVISIBLE(t); t = t->snext);
TopVisible(S, m) == FirstWith(S, StackList(S, m), ISVISIBLE)

\* void attach(Client *c)
attach(S, c) ==
    [S EXCEPT !.cl[c].next = S.mons[S.cl[c].mon].clients,
              !.mons[S.cl[c].mon].clients = c]

\* void attachstack(Client *c)
attachstack(S, c) ==
    [S EXCEPT !.cl[c].snext = S.mons[S.cl[c].mon].stack,
              !.mons[S.cl[c].mon].stack = c]

\* the loop of detach(): tc points at the next field of client prev (at
\* c->mon->clients when prev is NULL); then *tc = c->next
RECURSIVE detachloop(_, _, _, _)
detachloop(S, c, prev, fuel) ==
    IF prev = NULL
    THEN (IF S.mons[S.cl[c].mon].clients \in {NULL, c}
          THEN [S EXCEPT !.mons[S.cl[c].mon].clients = S.cl[c].next]
          ELSE detachloop(S, c, S.mons[S.cl[c].mon].clients, fuel))
    ELSE (IF S.cl[prev].next \in {NULL, c} \/ fuel = 0
          THEN [S EXCEPT !.cl[prev].next = S.cl[c].next]
          ELSE detachloop(S, c, S.cl[prev].next, fuel - 1))

\* void detach(Client *c)
detach(S, c) == detachloop(S, c, NULL, NumWin)

\* the first loop of detachstack(), as in detach() along snext
RECURSIVE detachstackloop(_, _, _, _)
detachstackloop(S, c, prev, fuel) ==
    IF prev = NULL
    THEN (IF S.mons[S.cl[c].mon].stack \in {NULL, c}
          THEN [S EXCEPT !.mons[S.cl[c].mon].stack = S.cl[c].snext]
          ELSE detachstackloop(S, c, S.mons[S.cl[c].mon].stack, fuel))
    ELSE (IF S.cl[prev].snext \in {NULL, c} \/ fuel = 0
          THEN [S EXCEPT !.cl[prev].snext = S.cl[c].snext]
          ELSE detachstackloop(S, c, S.cl[prev].snext, fuel - 1))

\* a faulty end of detachstack(): c->mon->sel is left as it is
detachstacksel_keep(S, c) == S

\* the end of detachstack(): a new c->mon->sel when c was selected
detachstacksel(S, c) ==
    IF c = S.mons[S.cl[c].mon].sel
    THEN [S EXCEPT !.mons[S.cl[c].mon].sel = TopVisible(S, S.cl[c].mon)]
    ELSE S

\* void detachstack(Client *c)
detachstack(S, c) == detachstacksel(detachstackloop(S, c, NULL, NumWin), c)

\* void unfocus(Client *c, Bool setfocus)
unfocus(S, c, setfocus) ==
    IF c = NULL THEN S ELSE [S EXCEPT !.prevclient = c]

\* focus(): if(selmon->sel && selmon->sel != c) unfocus(selmon->sel, False)
focusunfocus(S, c) ==
    IF S.mons[S.selmon].sel # NULL /\ S.mons[S.selmon].sel # c
    THEN unfocus(S, S.mons[S.selmon].sel, FALSE)
    ELSE S

\* focus() without detachstack(c); attachstack(c)
focusraise_noraise(S, c) ==
    IF c # NULL
    THEN [S EXCEPT !.selmon = S.cl[c].mon, !.cl[c].isurgent = FALSE]
    ELSE S

\* focus(): the if(c) branch
focusraise(S, c) ==
    IF c # NULL
    THEN attachstack(detachstack([S EXCEPT !.selmon = S.cl[c].mon,
                                           !.cl[c].isurgent = FALSE], c), c)
    ELSE S

\* focus(): selmon->sel = c
focussel(S, c) == [S EXCEPT !.mons[S.selmon].sel = c]

\* focus() once c is the client to focus, or NULL
focusclient(S, c) == focussel(focusraise(focusunfocus(S, c), c), c)

\* void focus(Client *c)
focus(S, c) ==
    focusclient(S, IF c = NULL \/ ~ISVISIBLE(S, c) THEN TopVisible(S, S.selmon) ELSE c)

(***************************************************************************)
(* Geometry: size hints, resize, the layouts                               *)
(***************************************************************************)
\* a < w / h for the float a = a[1] / a[2] (a[2] > 0) and the float quotient
\* of the ints w and h; w / 0 is +inf, -inf or NaN
RatLess(a, w, h) ==
    IF h > 0 THEN a[1] * h < w * a[2]
    ELSE IF h < 0 THEN a[1] * h > w * a[2]
    ELSE w > 0

\* (int)(v * a + 0.5) for the float a = a[1] / a[2]
RatScale(v, a) == CDiv(2 * v * a[1] + a[2], 2 * a[2])

\* applysizehints() works on g = [x, y, w, h], the values behind its pointers.
\* set minimum possible
hintsmin(g) == [g EXCEPT !.w = MAX(1, g.w), !.h = MAX(1, g.h)]

\* the first two tests of either branch of if(interact)
hintsfar(S, c, g, interact) ==
    IF interact
    THEN [g EXCEPT !.x = IF g.x >= S.sw THEN S.sw - WIDTH(S, c) ELSE g.x,
                   !.y = IF g.y > S.sh THEN S.sh - HEIGHT(S, c) ELSE g.y]
    ELSE [g EXCEPT !.x = IF g.x >= S.mons[S.cl[c].mon].wx + S.mons[S.cl[c].mon].ww
                         THEN S.mons[S.cl[c].mon].wx + S.mons[S.cl[c].mon].ww - WIDTH(S, c)
                         ELSE g.x,
                   !.y = IF g.y >= S.mons[S.cl[c].mon].wy + S.mons[S.cl[c].mon].wh
                         THEN S.mons[S.cl[c].mon].wy + S.mons[S.cl[c].mon].wh - HEIGHT(S, c)
                         ELSE g.y]

\* the last two tests of either branch of if(interact)
hintsnear(S, c, g, interact) ==
    IF interact
    THEN [g EXCEPT !.x = IF g.x + g.w + 2 * S.cl[c].bw < 0 THEN 0 ELSE g.x,
                   !.y = IF g.y + g.h + 2 * S.cl[c].bw < 0 THEN 0 ELSE g.y]
    ELSE [g EXCEPT !.x = IF g.x + g.w + 2 * S.cl[c].bw <= S.mons[S.cl[c].mon].wx
                         THEN S.mons[S.cl[c].mon].wx ELSE g.x,
                   !.y = IF g.y + g.h + 2 * S.cl[c].bw <= S.mons[S.cl[c].mon].wy
                         THEN S.mons[S.cl[c].mon].wy ELSE g.y]

\* if(*h < bh) *h = bh; if(*w < bh) *w = bh;
hintsbar(g) ==
    [g EXCEPT !.h = IF g.h < BarHeight THEN BarHeight ELSE g.h,
              !.w = IF g.w < BarHeight THEN BarHeight ELSE g.w]

\* see last two sentences in ICCCM 4.1.2.3
baseismin(C) == C.basew = C.minw /\ C.baseh = C.minh

\* temporarily remove base dimensions
hintsbase(C, g) ==
    IF ~baseismin(C) THEN [g EXCEPT !.w = g.w - C.basew, !.h = g.h - C.baseh] ELSE g

\* adjust for aspect limits
hintsaspect(C, g) ==
    IF C.mina[1] > 0 /\ C.maxa[1] > 0
    THEN (IF RatLess(C.maxa, g.w, g.h) THEN [g EXCEPT !.w = RatScale(g.h, C.maxa)]
          ELSE IF RatLess(C.mina, g.h, g.w) THEN [g EXCEPT !.h = RatScale(g.w, C.mina)]
          ELSE g)
    ELSE g

\* increment calculation requires this
hintsbase2(C, g) ==
    IF baseismin(C) THEN [g EXCEPT !.w = g.w - C.basew, !.h = g.h - C.baseh] ELSE g

\* adjust for increment value
hintsinc(C, g) ==
    [g EXCEPT !.w = IF C.incw # 0 THEN g.w - CRem(g.w, C.incw) ELSE g.w,
              !.h = IF C.inch # 0 THEN g.h - CRem(g.h, C.inch) ELSE g.h]

\* restore base dimensions
hintsrestore(C, g) ==
    [g EXCEPT !.w = MAX(g.w + C.basew, C.minw), !.h = MAX(g.h + C.baseh, C.minh)]

hintsmax(C, g) ==
    [g EXCEPT !.w = IF C.maxw # 0 THEN MIN(g.w, C.maxw) ELSE g.w,
              !.h = IF C.maxh # 0 THEN MIN(g.h, C.maxh) ELSE g.h]

\* the branch if(c->sizehints || c->isfloating || !c->mon->lt->arrange)
hintssize(S, c, g) ==
    IF S.cl[c].sizehints \/ S.cl[c].isfloating \/ ~HasArrange(S, S.cl[c].mon)
    THEN hintsmax(S.cl[c], hintsrestore(S.cl[c], hintsinc(S.cl[c],
             hintsbase2(S.cl[c], hintsaspect(S.cl[c], hintsbase(S.cl[c], g))))))
    ELSE g

\* the value applysizehints() returns
hintschanged(S, c, g) ==
    [x |-> g.x, y |-> g.y, w |-> g.w, h |-> g.h,
     changed |-> g.x # S.cl[c].x \/ g.y # S.cl[c].y \/ g.w # S.cl[c].w \/ g.h # S.cl[c].h]

\* Bool applysizehints(Client *c, int *x, int *y, int *w, int *h, Bool interact)
\* the values left in *x, *y, *w, *h and the value returned
applysizehints(S, c, x, y, w, h, interact) ==
    hintschanged(S, c,
        hintssize(S, c,
            hintsbar(hintsnear(S, c,
                hintsfar(S, c, hintsmin([x |-> x, y |-> y, w |-> w, h |-> h]), interact),
                interact))))

\* void resizeclient(Client *c, int x, int y, int w, int h)
resizeclient(S, c, x, y, w, h) ==
    [S EXCEPT !.cl[c].oldx = S.cl[c].x, !.cl[c].x = x,
              !.cl[c].oldy = S.cl[c].y, !.cl[c].y = y,
              !.cl[c].oldw = S.cl[c].w, !.cl[c].w = w,
              !.cl[c].oldh = S.cl[c].h, !.cl[c].h = h]

\* resize() once applysizehints() has returned r
resizeto(S, c, r) ==
    IF r.changed THEN resizeclient(S, c, r.x, r.y, r.w, r.h) ELSE S

\* void resize(Client *c, int x, int y, int w, int h, Bool interact)
resize(S, c, x, y, w, h, interact) ==
    resizeto(S, c, applysizehints(S, c, x, y, w, h, interact))

\* void showhide(Client *c) for one client c (the recursion is showhidestack)
showhideclient(S, c) ==
    IF ISVISIBLE(S, c)
       /\ (~HasArrange(S, S.cl[c].mon) \/ S.cl[c].isfloating)
       /\ ~S.cl[c].isfullscreen
    THEN resize(S, c, S.cl[c].x, S.cl[c].y, S.cl[c].w, S.cl[c].h, FALSE)
    ELSE S

\* void showhide(Client *c): c and the clients below it in the focus stack
RECURSIVE showhide(_, _, _)
showhide(S, c, fuel) ==
    IF c = NULL \/ fuel = 0 THEN S
    ELSE showhide(showhideclient(S, c), S.cl[c].snext, fuel - 1)

\* what Client *nexttiled(Client *c) skips
IsTiled(S, c) == ~S.cl[c].isfloating /\ ISVISIBLE(S, c)

\* Client *nexttiled(Client *c)
RECURSIVE nexttiled(_, _, _)
nexttiled(S, c, fuel) ==
    IF c = NULL \/ fuel = 0 THEN NULL
    ELSE IF IsTiled(S, c) THEN c
    ELSE nexttiled(S, S.cl[c].next, fuel - 1)

\* the clients nexttiled() yields on monitor m, in client-list order
TiledList(S, m) == SelectSeq(ClientList(S, m), LAMBDA c : IsTiled(S, c))

\* tile(): a master client c, h being (m->wh - my) / (MIN(n, actual_nmaster) - i)
tilemaster(S, m, c, mw, my, h) ==
    resize(S, c,
           S.mons[m].wx + S.gappx,
           ToInt(S.mons[m].wy + my + S.gappx),
           ToInt(mw - (2 * S.cl[c].bw) - (2 * S.gappx)),
           ToInt(h - (2 * S.cl[c].bw) - (2 * S.gappx)),
           FALSE)

\* tile(): a stack client c, h being (m->wh - ty) / (n - i)
tilestack(S, m, c, mw, ty, h) ==
    resize(S, c,
           ToInt(S.mons[m].wx + mw + S.gappx),
           ToInt(S.mons[m].wy + ty + S.gappx),
           ToInt(S.mons[m].ww - mw - (2 * S.cl[c].bw) - (2 * S.gappx)),
           ToInt(h - (2 * S.cl[c].bw) - (2 * S.gappx)),
           FALSE)

\* the for loop of tile(): c is the client to place, i its index; n, an
\* (actual_nmaster), mw, my, ty are unsigned int.  tilenext is the end of one
\* iteration, c having been resized: my or ty grows, c and i advance
RECURSIVE tileloop(_, _, _, _, _, _, _, _, _)
tilenext(S, m, c, i, n, an, mw, my, ty) ==
    IF i < an
    THEN tileloop(S, m, nexttiled(S, S.cl[c].next, NumWin), i + 1, n, an, mw,
                  U32(my + HEIGHT(S, c) + (2 * S.gappx)), ty)
    ELSE tileloop(S, m, nexttiled(S, S.cl[c].next, NumWin), i + 1, n, an, mw, my,
                  U32(ty + HEIGHT(S, c) + (2 * S.gappx)))

tileloop(S, m, c, i, n, an, mw, my, ty) ==
    IF c = NULL \/ i > NumWin THEN S
    ELSE IF i < an
    THEN tilenext(tilemaster(S, m, c, mw, my,
                             U32(S.mons[m].wh - my) \div U32(MIN(n, an) - i)),
                  m, c, i, n, an, mw, my, ty)
    ELSE tilenext(tilestack(S, m, c, mw, ty, U32(S.mons[m].wh - ty) \div U32(n - i)),
                  m, c, i, n, an, mw, my, ty)

\* actual_nmaster of tile() for n tiled clients
ActualNmaster(M, n) ==
    IF M.nmaster # 0 THEN U32(M.nmaster)
    ELSE MIN(MAX(n \div 2, 1), U32(M.nmaster_dynamic_max))

\* mw of tile() taken to be m->ww whatever n is
MasterWidth_full(M, n) == U32(M.ww)

\* mw of tile(): the width of the master column; m->ww * m->mfact is
\* truncated to unsigned int
MasterWidth(M, n) ==
    IF n > ActualNmaster(M, n)
    THEN (IF ActualNmaster(M, n) # 0 THEN U32((M.ww * M.mfact) \div 100) ELSE 0)
    ELSE U32(M.ww)

\* tile() once n is counted
tilen(S, m, n) ==
    IF n = 0 THEN S
    ELSE tileloop(S, m, nexttiled(S, S.mons[m].clients, NumWin), 0, n,
                  ActualNmaster(S.mons[m], n), MasterWidth(S.mons[m], n), 0, 0)

\* void tile(Monitor *m)
tile(S, m) == tilen(S, m, Len(TiledList(S, m)))

\* the resize loop of monocle()
RECURSIVE monocleloop(_, _, _, _)
monocleloop(S, m, c, fuel) ==
    IF c = NULL \/ fuel = 0 THEN S
    ELSE monocleloop(resize(S, c,
                            S.mons[m].wx + S.gappx,
                            S.mons[m].wy + S.gappx,
                            S.mons[m].ww - (2 * S.cl[c].bw) - (2 * S.gappx),
                            S.mons[m].wh - (2 * S.cl[c].bw) - (2 * S.gappx),
                            FALSE),
                     m, nexttiled(S, S.cl[c].next, NumWin), fuel - 1)

\* void monocle(Monitor *m)
monocle(S, m) == monocleloop(S, m, nexttiled(S, S.mons[m].clients, NumWin), NumWin)

\* void arrangemon(Monitor *m)
arrangemon(S, m) ==
    IF S.mons[m].lt = "tile" THEN tile(S, m)
    ELSE IF S.mons[m].lt = "monocle" THEN monocle(S, m)
    ELSE S

\* showhide(m->stack) for the monitors from m on
RECURSIVE showhideall(_, _)
showhideall(S, m) ==
    IF m > Len(S.mons) THEN S
    ELSE showhideall(showhide(S, S.mons[m].stack, NumWin), m + 1)

\* arrangemon(m) for the monitors from m on
RECURSIVE arrangeall(_, _)
arrangeall(S, m) ==
    IF m > Len(S.mons) THEN S ELSE arrangeall(arrangemon(S, m), m + 1)

\* void arrange(Monitor *m); restack(m) changes the X stacking order only
arrange(S, m) ==
    IF m # NULL
    THEN arrangemon(showhide(S, S.mons[m].stack, NumWin), m)
    ELSE arrangeall(showhideall(S, 1), 1)

\* arrange(selmon) and arrange(c->mon)
arrangeselmon(S) == arrange(S, S.selmon)
arrangeclientmon(S, c) == arrange(S, S.cl[c].mon)

(***************************************************************************)
(* Monitors                                                                *)
(***************************************************************************)
\* the loop body of dirtomon() for monitor m and distance d; r holds nearest,
\* faraway, min_d_pos and min_d_neg
dirstep(r, m, d) ==
    IF d > 0 /\ (r.min_d_pos = 0 \/ d < r.min_d_pos)
    THEN [r EXCEPT !.min_d_pos = d, !.nearest = m]
    ELSE IF d < 0 /\ (r.min_d_neg = 0 \/ d < r.min_d_neg)
    THEN [r EXCEPT !.min_d_neg = d, !.faraway = m]
    ELSE r

\* the loop of dirtomon() over the monitors from m on
RECURSIVE dirloop(_, _, _, _)
dirloop(S, dir, m, r) ==
    IF m > Len(S.mons) THEN r
    ELSE dirloop(S, dir, m + 1,
                 dirstep(r, m,
                         (IF dir > 1 \/ dir < -1
                          THEN S.mons[m].my - S.mons[S.selmon].my
                          ELSE S.mons[m].mx - S.mons[S.selmon].mx) * dir))

\* dirtomon() without the wrap to the other side
dirpick_nowrap(S, r) == r.nearest

\* m = nearest == selmon ? faraway : nearest
dirpick(S, r) == IF r.nearest = S.selmon THEN r.faraway ELSE r.nearest

\* dirtomon(dir) for dir # 0
dirtomonside(S, dir) ==
    dirpick(S, dirloop(S, dir, 1, [nearest |-> S.selmon, faraway |-> S.selmon,
                                   min_d_pos |-> 0, min_d_neg |-> 0]))

\* Monitor *dirtomon(int dir)
dirtomon(S, dir) ==
    IF dir # 0 THEN dirtomonside(S, dir)
    ELSE IF S.prevmon # NULL THEN S.prevmon
    ELSE dirtomonside(S, 1)

\* void updatebarpos(Monitor *m), on a Monitor record
updatebarpos(M) ==
    IF M.showbar
    THEN [M EXCEPT !.wh = M.mh - BarHeight,
                   !.by = IF M.topbar THEN M.my ELSE M.my + (M.mh - BarHeight),
                   !.wy = IF M.topbar THEN M.my + BarHeight ELSE M.my]
    ELSE [M EXCEPT !.wy = M.my, !.wh = M.mh, !.by = -BarHeight]

\* static Bool isuniquegeom(unique, n, info)
isuniquegeom(unique, info) ==
    \A k \in 1..Len(unique) :
        ~(unique[k].x = info.x /\ unique[k].y = info.y
          /\ unique[k].w = info.w /\ unique[k].h = info.h)

\* the unique geometries among the screens Xinerama reports, in their order
RECURSIVE uniquegeoms(_, _)
uniquegeoms(info, unique) ==
    IF info = <<>> THEN unique
    ELSE uniquegeoms(Tail(info),
                     IF isuniquegeom(unique, Head(info))
                     THEN Append(unique, Head(info)) ELSE unique)

\* updategeom(), n <= nn: the test on monitor i (0-based) against unique[i]
geomchanged(M, u, i, n) ==
    i >= n \/ u.x # M.mx \/ u.y # M.my \/ u.w # M.mw \/ u.h # M.mh

\* updategeom(), n <= nn: the assignments when the test holds
setgeom(M, u, i) ==
    updatebarpos([M EXCEPT !.num = i,
                           !.mx = u.x, !.wx = u.x,
                           !.my = u.y, !.wy = u.y,
                           !.mw = u.w, !.ww = u.w,
                           !.mh = u.h, !.wh = u.h])

\* updategeom(), n <= nn: monitor i (1-based) before the second for loop, a
\* new one when i > n
oldmon(S, i) == IF i <= Len(S.mons) THEN S.mons[i] ELSE createmon

\* updategeom(), n <= nn: both for loops; the world and dirty
growmons(S, unique) ==
    [S |-> [S EXCEPT !.mons =
                [i \in 1..Len(unique) |->
                    IF geomchanged(oldmon(S, i), unique[i], i - 1, Len(S.mons))
                    THEN setgeom(oldmon(S, i), unique[i], i - 1)
                    ELSE oldmon(S, i)]],
     dirty |-> \E i \in 1..Len(unique) :
                  geomchanged(oldmon(S, i), unique[i], i - 1, Len(S.mons))]

\* a faulty drainclient: attach(c) is left out
drainclient_noattach(S, m, c) ==
    attachstack([detachstack([S EXCEPT !.mons[m].clients = S.cl[c].next], c)
                    EXCEPT !.cl[c].mon = 1], c)

\* a faulty drainclient: the client is relinked but c->mon = mons is left out
drainclient_keepmon(S, m, c) ==
    attachstack(attach(detachstack([S EXCEPT !.mons[m].clients = S.cl[c].next], c), c), c)

\* updategeom(), nn < n: one turn of the while loop on client c of monitor m
drainclient(S, m, c) ==
    attachstack(attach([detachstack([S EXCEPT !.mons[m].clients = S.cl[c].next], c)
                           EXCEPT !.cl[c].mon = 1], c), c)

\* updategeom(), nn < n: the while loop that moves the clients of the last
\* monitor m to the first one
RECURSIVE drainmon(_, _, _)
drainmon(S, m, fuel) ==
    IF S.mons[m].clients = NULL \/ fuel = 0 THEN S
    ELSE drainmon(drainclient(S, m, S.mons[m].clients), m, fuel - 1)

\* updategeom(), nn < n: if(m == selmon) selmon = mons; cleanupmon(m);
removemon(S, m) ==
    [S EXCEPT !.selmon = IF m = S.selmon THEN 1 ELSE S.selmon,
              !.mons = [i \in 1..(m - 1) |-> S.mons[i]]]

\* updategeom(), nn < n: the for loop that removes the monitors nn+1 .. n;
\* r.S is the world, r.dirty the flag
RECURSIVE dropmons(_, _)
dropmons(r, nn) ==
    IF Len(r.S.mons) <= nn THEN r
    ELSE dropmons([S |-> removemon(drainmon(r.S, Len(r.S.mons), NumWin), Len(r.S.mons)),
                   dirty |-> r.dirty \/ r.S.mons[Len(r.S.mons)].clients # NULL],
                  nn)

\* updategeom(): the branches n <= nn and nn < n
updatemons(S, unique) ==
    IF Len(S.mons) <= Len(unique) THEN growmons(S, unique)
    ELSE dropmons([S |-> S, dirty |-> FALSE], Len(unique))

\* updategeom(): if(dirty) { selmon = mons; selmon = wintomon(root); }
updateselmon(r, ptr) ==
    IF r.dirty
    THEN [r EXCEPT !.S.selmon = IF ptr \in 1..Len(r.S.mons) THEN ptr ELSE 1]
    ELSE r

\* Bool updategeom(void) with Xinerama active: info is what
\* XineramaQueryScreens() reports, ptr the monitor wintomon(root) finds under
\* the pointer.  The result is the world and the value returned (dirty).
updategeom(S, info, ptr) ==
    updateselmon(updatemons([S EXCEPT !.prevmon = NULL], uniquegeoms(info, <<>>)), ptr)

(***************************************************************************)
(* Clients                                                                 *)
(***************************************************************************)
\* setfullscreen(c, True)
enterfullscreen(S, c) ==
    resizeclient([S EXCEPT !.cl[c].isfullscreen = TRUE,
                           !.cl[c].oldstate = S.cl[c].isfloating,
                           !.cl[c].oldbw = S.cl[c].bw,
                           !.cl[c].bw = 0,
                           !.cl[c].isfloating = TRUE],
                 c, S.mons[S.cl[c].mon].mx, S.mons[S.cl[c].mon].my,
                 S.mons[S.cl[c].mon].mw, S.mons[S.cl[c].mon].mh)

\* setfullscreen(c, False)
leavefullscreen(S, c) ==
    arrangeclientmon(
        resizeclient([S EXCEPT !.cl[c].isfullscreen = FALSE,
                               !.cl[c].isfloating = S.cl[c].oldstate,
                               !.cl[c].bw = S.cl[c].oldbw,
                               !.cl[c].x = S.cl[c].oldx,
                               !.cl[c].y = S.cl[c].oldy,
                               !.cl[c].w = S.cl[c].oldw,
                               !.cl[c].h = S.cl[c].oldh],
                     c, S.cl[c].oldx, S.cl[c].oldy, S.cl[c].oldw, S.cl[c].oldh),
        c)

\* void setfullscreen(Client *c, Bool fullscreen)
setfullscreen(S, c, fullscreen) ==
    IF fullscreen THEN enterfullscreen(S, c) ELSE leavefullscreen(S, c)

\* the rules of config.def.h; the tag of the second rule (1 << 8 of 9 tags)
\* is the last tag of the bounded configuration
rules ==
    << [tags |-> 0, isfloating |-> TRUE, monitor |-> -1, sizehints |-> FALSE],
       [tags |-> Shl(1, NumTags - 1), isfloating |-> FALSE, monitor |-> -1,
        sizehints |-> FALSE] >>

\* True means respect size hints in tiled resizals
sizehints_default == TRUE

\* for(m = mons; m && m->num != r->monitor; m = m->next): the monitor, or NULL
rulemon(S, num) ==
    IF \E m \in 1..Len(S.mons) : S.mons[m].num = num
    THEN CHOOSE m \in 1..Len(S.mons) :
             S.mons[m].num = num /\ \A k \in 1..(m - 1) : S.mons[k].num # num
    ELSE NULL

\* the body of the for loop of applyrules() for a rule r that matches
applyrule(S, c, r) ==
    [S EXCEPT !.cl[c].isfloating = r.isfloating,
              !.cl[c].sizehints = r.sizehints,
              !.cl[c].tags = BitOr(S.cl[c].tags, r.tags),
              !.cl[c].mon = IF rulemon(S, r.monitor) # NULL
                            THEN rulemon(S, r.monitor) ELSE S.cl[c].mon]

\* the for loop of applyrules() over the rules from i on; matched is the set of
\* rules whose class, instance and title the window matches
RECURSIVE rulesloop(_, _, _, _)
rulesloop(S, c, i, matched) ==
    IF i > Len(rules) THEN S
    ELSE IF i \notin matched THEN rulesloop(S, c, i + 1, matched)
    ELSE rulesloop(applyrule(S, c, rules[i]), c, i + 1, matched)

\* a faulty ruletags: the mask is applied but an empty result is kept
ruletags_nodefault(S, c) ==
    [S EXCEPT !.cl[c].tags = BitAnd(S.cl[c].tags, TAGMASK)]

\* the last statement of applyrules()
ruletags(S, c) ==
    [S EXCEPT !.cl[c].tags = IF BitAnd(S.cl[c].tags, TAGMASK) # 0
                             THEN BitAnd(S.cl[c].tags, TAGMASK)
                             ELSE ActiveTags(S, S.cl[c].mon)]

\* void applyrules(Client *c)
applyrules(S, c, matched) ==
    ruletags(rulesloop([S EXCEPT !.cl[c].isfloating = FALSE, !.cl[c].tags = 0,
                                 !.cl[c].sizehints = sizehints_default],
                       c, 1, matched), c)

\* updatesizehints(): the fields read from size (size.flags is PSize when the
\* window has no WM_NORMAL_HINTS)
sizefields(size) ==
    [basew |-> IF "PBaseSize" \in size.flags THEN size.base_width
               ELSE IF "PMinSize" \in size.flags THEN size.min_width ELSE 0,
     baseh |-> IF "PBaseSize" \in size.flags THEN size.base_height
               ELSE IF "PMinSize" \in size.flags THEN size.min_height ELSE 0,
     incw |-> IF "PResizeInc" \in size.flags THEN size.width_inc ELSE 0,
     inch |-> IF "PResizeInc" \in size.flags THEN size.height_inc ELSE 0,
     maxw |-> IF "PMaxSize" \in size.flags THEN size.max_width ELSE 0,
     maxh |-> IF "PMaxSize" \in size.flags THEN size.max_height ELSE 0,
     minw |-> IF "PMinSize" \in size.flags THEN size.min_width
              ELSE IF "PBaseSize" \in size.flags THEN size.base_width ELSE 0,
     minh |-> IF "PMinSize" \in size.flags THEN size.min_height
              ELSE IF "PBaseSize" \in size.flags THEN size.base_height ELSE 0,
     mina |-> IF "PAspect" \in size.flags THEN size.min_aspect ELSE <<0, 1>>,
     maxa |-> IF "PAspect" \in size.flags THEN size.max_aspect ELSE <<0, 1>>]

\* updatesizehints() once the fields f are read
storehints(S, c, f) ==
    [S EXCEPT !.cl[c].basew = f.basew, !.cl[c].baseh = f.baseh,
              !.cl[c].incw = f.incw, !.cl[c].inch = f.inch,
              !.cl[c].maxw = f.maxw, !.cl[c].maxh = f.maxh,
              !.cl[c].minw = f.minw, !.cl[c].minh = f.minh,
              !.cl[c].mina = f.mina, !.cl[c].maxa = f.maxa,
              !.cl[c].isfixed = (f.maxw # 0 /\ f.minw # 0 /\ f.maxh # 0 /\ f.minh # 0
                                 /\ f.maxw = f.minw /\ f.maxh = f.minh)]

\* void updatesizehints(Client *c); size is the XSizeHints read
updatesizehints(S, c, size) == storehints(S, c, sizefields(size))

\* updatewindowtype(): if(wtype == netatom[NetWMWindowTypeDialog])
typedialog(S, c, dialog) ==
    IF dialog THEN [S EXCEPT !.cl[c].isfloating = TRUE] ELSE S

\* void updatewindowtype(Client *c): fs is whether _NET_WM_STATE is
\* _NET_WM_STATE_FULLSCREEN, dialog whether the type is a dialog
updatewindowtype(S, c, fs, dialog) ==
    typedialog(IF fs THEN setfullscreen(S, c, TRUE) ELSE S, c, dialog)

\* manage() with c->mon = mons in place of c->mon = selmon
managenew_firstmon(S, c, p) ==
    IF p.trans # NULL /\ S.cl[p.trans].managed
    THEN [S EXCEPT !.cl[c] = [NoClient EXCEPT !.managed = TRUE,
                                              !.mon = S.cl[p.trans].mon,
                                              !.tags = S.cl[p.trans].tags]]
    ELSE applyrules([S EXCEPT !.cl[c] = [NoClient EXCEPT !.managed = TRUE,
                                                         !.mon = 1]],
                    c, p.matched)

\* manage(): the client allocated with calloc(), its monitor and tags.  p
\* holds what the X server answers for the window: wa (x, y, width, height,
\* border_width), trans (WM_TRANSIENT_FOR or NULL), matched (the rules it
\* matches), size (WM_NORMAL_HINTS), fs and dialog (see updatewindowtype)
managenew(S, c, p) ==
    IF p.trans # NULL /\ S.cl[p.trans].managed
    THEN [S EXCEPT !.cl[c] = [NoClient EXCEPT !.managed = TRUE,
                                              !.mon = S.cl[p.trans].mon,
                                              !.tags = S.cl[p.trans].tags]]
    ELSE applyrules([S EXCEPT !.cl[c] = [NoClient EXCEPT !.managed = TRUE,
                                                         !.mon = S.selmon]],
                    c, p.matched)

\* manage(): c->x after the edge tests, M being c->mon
managex(M, wa) ==
    MAX(IF wa.x + wa.width + 2 * borderpx > M.mx + M.mw
        THEN M.mx + M.mw - wa.width - 2 * borderpx ELSE wa.x,
        M.mx)

\* manage(): c->y after the edge tests, M being c->mon
managey(M, wa) ==
    MAX(IF wa.y + wa.height + 2 * borderpx > M.my + M.mh
        THEN M.my + M.mh - wa.height - 2 * borderpx ELSE wa.y,
        M.my + (IF M.topbar THEN BarHeight ELSE 0))

\* manage(): geometry
managegeom(S, c, wa) ==
    [S EXCEPT !.cl[c].oldx = wa.x, !.cl[c].oldy = wa.y,
              !.cl[c].w = wa.width, !.cl[c].oldw = wa.width,
              !.cl[c].h = wa.height, !.cl[c].oldh = wa.height,
              !.cl[c].oldbw = wa.border_width,
              !.cl[c].x = managex(S.mons[S.cl[c].mon], wa)
                          + (IF wa.x = 0 /\ wa.y = 0 THEN S.gappx ELSE 0),
              !.cl[c].y = managey(S.mons[S.cl[c].mon], wa)
                          + (IF wa.x = 0 /\ wa.y = 0 THEN S.gappx ELSE 0),
              !.cl[c].bw = borderpx]

\* manage(): if(!c->isfloating) c->isfloating = c->oldstate = trans != None || c->isfixed
managefloat(S, c, trans) ==
    IF ~S.cl[c].isfloating
    THEN [S EXCEPT !.cl[c].isfloating = (trans # NULL \/ S.cl[c].isfixed),
                   !.cl[c].oldstate = (trans # NULL \/ S.cl[c].isfixed)]
    ELSE S

\* manage(): if(c->mon == selmon) unfocus(selmon->sel, False); c->mon->sel = c
managesel(S, c) ==
    [(IF S.cl[c].mon = S.selmon THEN unfocus(S, S.mons[S.selmon].sel, FALSE) ELSE S)
        EXCEPT !.mons[S.cl[c].mon].sel = c]

\* void manage(Window w, XWindowAttributes *wa)
manage(S, c, p) ==
    focus(arrangeclientmon(managesel(attachstack(attach(
        managefloat(
            updatesizehints(
                updatewindowtype(managegeom(managenew(S, c, p), c, p.wa),
                                 c, p.fs, p.dialog),
                c, p.size),
            c, p.trans), c), c), c), c), NULL)

\* free(c): the Client structure is gone; prevclient, which unmanage() does
\* not reset, keeps the address
free(S, c) ==
    [S EXCEPT !.cl[c] = NoClient,
              !.prevclient = IF S.prevclient = c THEN Freed ELSE S.prevclient]

\* manage(): c = calloc(1, sizeof(Client)) for window w.  The block may or
\* may not be one that free() released before, so a stale prevclient may or
\* may not point at the new Client: the set of worlds calloc() can leave.
calloc(S, w) ==
    IF S.prevclient = Freed THEN {S, [S EXCEPT !.prevclient = w]} ELSE {S}

\* unmanage(): free(c); focus(NULL); arrange(m)
unmanagefree(S, c, m) == arrange(focus(free(S, c), NULL), m)

\* unmanage() without detachstack(c)
unmanage_keepstack(S, c, destroyed) ==
    unmanagefree(detach(S, c), c, S.cl[c].mon)

\* void unmanage(Client *c, Bool destroyed)
unmanage(S, c, destroyed) ==
    unmanagefree(detachstack(detach(S, c), c), c, S.cl[c].mon)

\* void unmapnotify(XEvent *e) for the window of client c, ev->send_event being
\* send_event; setclientstate() changes a window property only
unmapnotify(S, c, send_event) ==
    IF send_event THEN S ELSE unmanage(S, c, FALSE)

\* void pop(Client *c)
pop(S, c) == arrangeclientmon(focus(attach(detach(S, c), c), c), c)

\* sendmon() without c->tags = m->tagset[m->seltags]
sendmontags_keeptags(S, c, m) == [S EXCEPT !.cl[c].mon = m]

\* sendmon(): c->mon = m; c->tags = m->tagset[m->seltags]
sendmontags(S, c, m) ==
    [S EXCEPT !.cl[c].mon = m, !.cl[c].tags = ActiveTags(S, m)]

\* void sendmon(Client *c, Monitor *m)
sendmon(S, c, m) ==
    IF S.cl[c].mon = m THEN S
    ELSE arrange(focus(attachstack(attach(
             sendmontags(detachstack(detach(unfocus(S, c, TRUE), c), c), c, m),
             c), c), NULL), NULL)

(***************************************************************************)
(* The user-facing operations (bound to keys and buttons)                  *)
(***************************************************************************)
\* focus(NULL); arrange(selmon);
refocus(S) == arrangeselmon(focus(S, NULL))

\* view() storing the mask without seltags ^= 1
viewswitch_noflip(S, m, ui) ==
    [S EXCEPT !.mons[m].tagset[S.mons[m].seltags + 1] =
                  IF BitAnd(ui, TAGMASK) # 0 THEN BitAnd(ui, TAGMASK)
                  ELSE S.mons[m].tagset[S.mons[m].seltags + 1]]

\* view() doing seltags ^= 1 only
viewswitch_nowrite(S, m, ui) ==
    [S EXCEPT !.mons[m].seltags = 1 - S.mons[m].seltags]

\* view(): seltags ^= 1, then tagset[seltags] = arg->ui & TAGMASK if nonzero
viewswitch(S, m, ui) ==
    [S EXCEPT !.mons[m].seltags = 1 - S.mons[m].seltags,
              !.mons[m].tagset[2 - S.mons[m].seltags] =
                  IF BitAnd(ui, TAGMASK) # 0 THEN BitAnd(ui, TAGMASK)
                  ELSE S.mons[m].tagset[2 - S.mons[m].seltags]]

\* void view(const Arg *arg)
view(S, ui) ==
    IF BitAnd(ui, TAGMASK) = ActiveTags(S, S.selmon) THEN S
    ELSE refocus(viewswitch(S, S.selmon, ui))

\* toggleview() without the test of newtagset
toggleviewto_nozero(S, newtagset) ==
    refocus([S EXCEPT !.mons[S.selmon].tagset[S.mons[S.selmon].seltags + 1] = newtagset])

\* toggleview() once newtagset is computed
toggleviewto(S, newtagset) ==
    IF newtagset # 0
    THEN refocus([S EXCEPT !.mons[S.selmon].tagset[S.mons[S.selmon].seltags + 1] =
                               newtagset])
    ELSE S

\* toggleview() with | in place of ^
toggleview_or(S, ui) ==
    toggleviewto(S, BitOr(ActiveTags(S, S.selmon), BitAnd(ui, TAGMASK)))

\* void toggleview(const Arg *arg)
toggleview(S, ui) ==
    toggleviewto(S, BitXor(ActiveTags(S, S.selmon), BitAnd(ui, TAGMASK)))

\* tag() storing arg->ui without & TAGMASK
tag_nomask(S, ui) ==
    IF S.mons[S.selmon].sel # NULL /\ BitAnd(ui, TAGMASK) # 0
    THEN refocus([S EXCEPT !.cl[S.mons[S.selmon].sel].tags = ui])
    ELSE S

\* void tag(const Arg *arg)
tag(S, ui) ==
    IF S.mons[S.selmon].sel # NULL /\ BitAnd(ui, TAGMASK) # 0
    THEN refocus([S EXCEPT !.cl[S.mons[S.selmon].sel].tags = BitAnd(ui, TAGMASK)])
    ELSE S

\* toggletag() once newtags is computed
toggletagto(S, newtags) ==
    IF newtags # 0
    THEN refocus([S EXCEPT !.cl[S.mons[S.selmon].sel].tags = newtags])
    ELSE S

\* void toggletag(const Arg *arg)
toggletag(S, ui) ==
    IF S.mons[S.selmon].sel = NULL THEN S
    ELSE toggletagto(S, BitXor(S.cl[S.mons[S.selmon].sel].tags, BitAnd(ui, TAGMASK)))

\* shiftmask() without the bits that wrap around
shiftbits_nowrap(m, dir, len) == IF dir > 0 THEN Shl(m, dir) ELSE Shr(m, -dir)

\* shiftmask() where LENGTH(tags) is len
shiftbits(m, dir, len) ==
    IF dir > 0
    THEN BitOr(Shl(m, dir), Shr(m, len - dir))
    ELSE BitOr(Shr(m, -dir), Shl(m, len + dir))

\* void shiftmask(unsigned int *m, int dir): the value left in *m
shiftmask(m, dir) == shiftbits(m, dir, NumTags)

\* void tagrel(const Arg *arg)
tagrel(S, i) ==
    IF S.mons[S.selmon].sel = NULL THEN S
    ELSE tag(S, shiftmask(S.cl[S.mons[S.selmon].sel].tags, i))

\* void shiftview(const Arg *arg)
shiftview(S, i) == view(S, shiftmask(ActiveTags(S, S.selmon), i))

\* the position of client c in the sequence l
PosIn(l, c) == CHOOSE k \in 1..Len(l) : l[k] = c

\* focusstack(), arg->i > 0: the client to focus, l being selmon's client
\* list and pos the position of selmon->sel in it
stacknext(S, l, pos) ==
    IF FirstWith(S, SubSeq(l, pos + 1, Len(l)), ISVISIBLE) # NULL
    THEN FirstWith(S, SubSeq(l, pos + 1, Len(l)), ISVISIBLE)
    ELSE FirstWith(S, l, ISVISIBLE)

\* focusstack(), arg->i <= 0: the client to focus
stackprev(S, l, pos) ==
    IF LastWith(S, SubSeq(l, 1, pos - 1), ISVISIBLE) # NULL
    THEN LastWith(S, SubSeq(l, 1, pos - 1), ISVISIBLE)
    ELSE LastWith(S, SubSeq(l, pos, Len(l)), ISVISIBLE)

\* focusstack(): if(c) { focus(c); restack(selmon); }
focusif(S, c) == IF c # NULL THEN focus(S, c) ELSE S

\* focusstack() with selmon->sel set, l being selmon's client list
focusstackin(S, i, l) ==
    focusif(S, IF i > 0 THEN stacknext(S, l, PosIn(l, S.mons[S.selmon].sel))
               ELSE stackprev(S, l, PosIn(l, S.mons[S.selmon].sel)))

\* void focusstack(const Arg *arg); restack() changes no model state
focusstack(S, i) ==
    IF S.mons[S.selmon].sel = NULL THEN S
    ELSE focusstackin(S, i, ClientList(S, S.selmon))

\* focusmon() once m = dirtomon(arg->i) is known
focusmonto(S, m) ==
    IF m = S.selmon THEN S
    ELSE focus([unfocus(S, S.mons[S.selmon].sel, FALSE)
                   EXCEPT !.prevmon = S.selmon, !.selmon = m], NULL)

\* void focusmon(const Arg *arg)
focusmon(S, i) ==
    IF Len(S.mons) < 2 THEN S ELSE focusmonto(S, dirtomon(S, i))

\* swapfocus(): c after for(c = selmon->clients; c && c != prevclient;
\* c = c->next), which is prevclient if the list holds it and NULL if not
swapfocusfind(S) ==
    IF S.prevclient \in SeqToSet(ClientList(S, S.selmon)) THEN S.prevclient ELSE NULL

\* swapfocus(): if(c == prevclient), true of a NULL prevclient too
swapfocushit(S) == swapfocusfind(S) = S.prevclient

\* void swapfocus(): the world it leaves; restack() changes no field
swapfocus(S) == IF swapfocushit(S) THEN focus(S, S.prevclient) ELSE S

\* swapfocus(): restack(c->mon) reads c->mon of a NULL c
swapfocusnull(S) == swapfocushit(S) /\ swapfocusfind(S) = NULL

\* the process after a read through a NULL pointer that the system answers
\* with SIGSEGV
segv(X) == [X EXCEPT !.phase = "fault"]

\* void tagmon(const Arg *arg)
tagmon(S, i) ==
    IF S.mons[S.selmon].sel = NULL \/ Len(S.mons) < 2 THEN S
    ELSE sendmon(S, S.mons[S.selmon].sel, dirtomon(S, i))

\* the predecessor of c in the client list l (the first i with i->next == c),
\* or NULL
Pred(S, l, c) ==
    IF \E k \in 1..Len(l) : S.cl[l[k]].next = c
    THEN l[CHOOSE k \in 1..Len(l) :
                S.cl[l[k]].next = c /\ \A j \in 1..(k - 1) : S.cl[l[j]].next # c]
    ELSE NULL

\* movestack(), arg->i > 0: the client to swap with
tilednext(S, l, pos) ==
    IF FirstWith(S, SubSeq(l, pos + 1, Len(l)), IsTiled) # NULL
    THEN FirstWith(S, SubSeq(l, pos + 1, Len(l)), IsTiled)
    ELSE FirstWith(S, l, IsTiled)

\* movestack(), arg->i <= 0: the client to swap with
tiledprev(S, l, pos) ==
    IF LastWith(S, SubSeq(l, 1, pos - 1), IsTiled) # NULL
    THEN LastWith(S, SubSeq(l, 1, pos - 1), IsTiled)
    ELSE LastWith(S, SubSeq(l, pos, Len(l)), IsTiled)

\* movestack(): the statements of if(c && c != sel), one assignment each; p and
\* pc are the clients before sel and before c, temp is taken before swap1
swap1(S, sel, c) ==
    [S EXCEPT !.cl[sel].next = IF S.cl[c].next = sel THEN c ELSE S.cl[c].next]
swap2(S, c, temp) == [S EXCEPT !.cl[c].next = temp]
swap3(S, c, p) == IF p # NULL /\ p # c THEN [S EXCEPT !.cl[p].next = c] ELSE S
swap4(S, sel, pc) == IF pc # NULL /\ pc # sel THEN [S EXCEPT !.cl[pc].next = sel] ELSE S
swap5(S, m, sel, c) ==
    IF sel = S.mons[m].clients THEN [S EXCEPT !.mons[m].clients = c]
    ELSE IF c = S.mons[m].clients THEN [S EXCEPT !.mons[m].clients = sel]
    ELSE S

\* movestack() without the update of selmon->clients
movestackswap_nohead(S, m, sel, c, p, pc) ==
    IF c # NULL /\ c # sel
    THEN arrange(swap4(swap3(swap2(swap1(S, sel, c), c,
                                   IF S.cl[sel].next = c THEN sel
                                   ELSE S.cl[sel].next),
                             c, p), sel, pc), m)
    ELSE S

\* movestack() once c, p and pc are found
movestackswap(S, m, sel, c, p, pc) ==
    IF c # NULL /\ c # sel
    THEN arrange(swap5(swap4(swap3(swap2(swap1(S, sel, c), c,
                                         IF S.cl[sel].next = c THEN sel
                                         ELSE S.cl[sel].next),
                                   c, p), sel, pc), m, sel, c), m)
    ELSE S

\* movestack() once c is found, l being selmon's client list
movestackwith(S, l, c) ==
    movestackswap(S, S.selmon, S.mons[S.selmon].sel, c,
                  Pred(S, l, S.mons[S.selmon].sel), Pred(S, l, c))

\* movestack() with selmon->sel set
movestackin(S, i, l) ==
    movestackwith(S, l, IF i > 0 THEN tilednext(S, l, PosIn(l, S.mons[S.selmon].sel))
                        ELSE tiledprev(S, l, PosIn(l, S.mons[S.selmon].sel)))

\* void movestack(const Arg *arg)
movestack(S, i) ==
    IF S.mons[S.selmon].sel = NULL THEN S
    ELSE movestackin(S, i, ClientList(S, S.selmon))

\* void togglefullscreen(const Arg *arg)
togglefullscreen(S) ==
    IF S.mons[S.selmon].sel = NULL THEN S
    ELSE IF ~S.cl[S.mons[S.selmon].sel].isfullscreen
    THEN setfullscreen(S, S.mons[S.selmon].sel, TRUE)
    ELSE setfullscreen(S, S.mons[S.selmon].sel, FALSE)

\* togglefloating(): if(selmon->sel->isfloating) resize(...); arrange(selmon)
floatresize(S, sel) ==
    arrangeselmon(IF S.cl[sel].isfloating
                  THEN resize(S, sel, S.cl[sel].x, S.cl[sel].y,
                              S.cl[sel].w, S.cl[sel].h, FALSE)
                  ELSE S)

\* void togglefloating(const Arg *arg)
togglefloating(S) ==
    IF S.mons[S.selmon].sel = NULL THEN S
    ELSE IF S.cl[S.mons[S.selmon].sel].isfullscreen THEN S
    ELSE floatresize([S EXCEPT !.cl[S.mons[S.selmon].sel].isfloating =
                                   ~S.cl[S.mons[S.selmon].sel].isfloating
                                   \/ S.cl[S.mons[S.selmon].sel].isfixed],
                     S.mons[S.selmon].sel)

\* setlayout(): if(selmon->sel) arrange(selmon)
layoutarrange(S) == IF S.mons[S.selmon].sel # NULL THEN arrangeselmon(S) ELSE S

\* void setlayout(const Arg *arg); v is the layout's arrange function, "keep"
\* standing for a NULL argument
setlayout(S, v) ==
    layoutarrange(IF v # "keep" THEN [S EXCEPT !.mons[S.selmon].lt = v] ELSE S)

\* void incnmaster(const Arg *arg)
incnmaster(S, i) ==
    arrangeselmon([S EXCEPT !.mons[S.selmon].nmaster = MAX(S.mons[S.selmon].nmaster + i, 0)])

\* setmfact() without if(f < 0.1 || f > 0.9) return
setmfactto_norange(S, f) == arrangeselmon([S EXCEPT !.mons[S.selmon].mfact = f])

\* setmfact() once f is known; f and mfact are kept in hundredths, so the
\* tests against 0.1 and 0.9 are exact here and good to a float's rounding in
\* the program
setmfactto(S, f) ==
    IF f < 10 \/ f > 90 THEN S
    ELSE arrangeselmon([S EXCEPT !.mons[S.selmon].mfact = f])

\* void setmfact(const Arg *arg); f is arg->f in hundredths
setmfact(S, f) ==
    IF ~HasArrange(S, S.selmon) THEN S
    ELSE setmfactto(S, IF f < 100 THEN f + S.mons[S.selmon].mfact ELSE f - 100)

(***************************************************************************)
(* The event handlers                                                      *)
(***************************************************************************)
\* clientmessage() with verb 2 taken for _NET_WM_STATE_ADD
clientmessage_state_add(S, c, verb) == setfullscreen(S, c, verb = 1 \/ verb = 2)

\* void clientmessage(XEvent *e) for _NET_WM_STATE naming
\* _NET_WM_STATE_FULLSCREEN; verb is cme->data.l[0]
clientmessage_state(S, c, verb) ==
    setfullscreen(S, c, verb = 1 \/ (verb = 2 /\ ~S.cl[c].isfullscreen))

\* clientmessage() storing the tags without seltags ^= 1
showtags_noflip(S, c, m) ==
    [S EXCEPT !.mons[m].tagset[S.mons[m].seltags + 1] = S.cl[c].tags]

\* void clientmessage(XEvent *e) of type _NET_WM_STATE for window w; l1 and l2
\* are whether data.l[1] and data.l[2] name _NET_WM_STATE_FULLSCREEN
clientmessage(S, w, verb, l1, l2) ==
    IF ~S.cl[w].managed THEN S
    ELSE IF l1 \/ l2 THEN clientmessage_state(S, w, verb)
    ELSE S

\* clientmessage(): c->mon->seltags ^= 1; c->mon->tagset[c->mon->seltags] = c->tags
showtags(S, c, m) ==
    [S EXCEPT !.mons[m].seltags = 1 - S.mons[m].seltags,
              !.mons[m].tagset[2 - S.mons[m].seltags] = S.cl[c].tags]

\* void clientmessage(XEvent *e) for _NET_ACTIVE_WINDOW
clientmessage_active(S, c) ==
    pop(IF ~ISVISIBLE(S, c) THEN showtags(S, c, S.cl[c].mon) ELSE S, c)

\* configurerequest(): the value_mask tests CWX, CWY, CWWidth, CWHeight
confmove(S, c, ev, M) ==
    [S EXCEPT !.cl[c].oldx = IF "CWX" \in ev.mask THEN S.cl[c].x ELSE S.cl[c].oldx,
              !.cl[c].x = IF "CWX" \in ev.mask THEN M.mx + ev.x ELSE S.cl[c].x,
              !.cl[c].oldy = IF "CWY" \in ev.mask THEN S.cl[c].y ELSE S.cl[c].oldy,
              !.cl[c].y = IF "CWY" \in ev.mask THEN M.my + ev.y ELSE S.cl[c].y,
              !.cl[c].oldw = IF "CWWidth" \in ev.mask THEN S.cl[c].w ELSE S.cl[c].oldw,
              !.cl[c].w = IF "CWWidth" \in ev.mask THEN ev.width ELSE S.cl[c].w,
              !.cl[c].oldh = IF "CWHeight" \in ev.mask THEN S.cl[c].h ELSE S.cl[c].oldh,
              !.cl[c].h = IF "CWHeight" \in ev.mask THEN ev.height ELSE S.cl[c].h]

\* configurerequest(): center in x direction, center in y direction
confcenter(S, c, M) ==
    [S EXCEPT !.cl[c].x = IF S.cl[c].x + S.cl[c].w > M.mx + M.mw /\ S.cl[c].isfloating
                          THEN M.mx + (CDiv(M.mw, 2) - CDiv(WIDTH(S, c), 2))
                          ELSE S.cl[c].x,
              !.cl[c].y = IF S.cl[c].y + S.cl[c].h > M.my + M.mh /\ S.cl[c].isfloating
                          THEN M.my + (CDiv(M.mh, 2) - CDiv(HEIGHT(S, c), 2))
                          ELSE S.cl[c].y]

\* void configurerequest(XEvent *e) for a managed window; ev.mask is
\* ev->value_mask as a set of CWX, CWY, CWWidth, CWHeight, CWBorderWidth
configurerequest(S, c, ev) ==
    IF "CWBorderWidth" \in ev.mask
    THEN [S EXCEPT !.cl[c].bw = ev.border_width]
    ELSE IF S.cl[c].isfloating \/ ~HasArrange(S, S.selmon)
    THEN confcenter(confmove(S, c, ev, S.mons[S.cl[c].mon]), c, S.mons[S.cl[c].mon])
    ELSE S

\* configurenotify(): if(updategeom() || dirty) { focus(NULL); arrange(NULL); }
confdirty(r, dirty) ==
    IF r.dirty \/ dirty THEN arrange(focus(r.S, NULL), NULL) ELSE r.S

\* void configurenotify(XEvent *e) for the root window, ev->width and
\* ev->height being width and height
configurenotify(S, width, height, info, ptr) ==
    confdirty(updategeom([S EXCEPT !.sw = width, !.sh = height], info, ptr),
              S.sw # width \/ S.sh # height)

\* void enternotify(XEvent *e) with mode NotifyNormal: c is the client of
\* ev->window (or NULL), m its monitor (wintomon(ev->window) when c is NULL)
enternotify(S, c, m) ==
    IF m # S.selmon
    THEN focus([unfocus(S, S.mons[S.selmon].sel, TRUE) EXCEPT !.selmon = m], c)
    ELSE IF c = NULL \/ c = S.mons[S.selmon].sel THEN S
    ELSE focus(S, c)

\* INTERSECT(x,y,w,h,m): the area of the rectangle g inside M's work area
INTERSECT(g, M) ==
    MAX(0, MIN(g.x + g.w, M.wx + M.ww) - MAX(g.x, M.wx))
        * MAX(0, MIN(g.y + g.h, M.wy + M.wh) - MAX(g.y, M.wy))

\* the loop of recttomon(), at monitor m with area and r so far
RECURSIVE recttomonloop(_, _, _, _, _)
recttomonloop(S, g, m, area, r) ==
    IF m > Len(S.mons) THEN r
    ELSE IF INTERSECT(g, S.mons[m]) > area
    THEN recttomonloop(S, g, m + 1, INTERSECT(g, S.mons[m]), m)
    ELSE recttomonloop(S, g, m + 1, area, r)

\* Monitor *recttomon(int x, int y, int w, int h), g being the rectangle
recttomon(S, g) == recttomonloop(S, g, 1, 0, S.selmon)

\* the geometry of client c as a rectangle
ClientRect(S, c) == [x |-> S.cl[c].x, y |-> S.cl[c].y, w |-> S.cl[c].w, h |-> S.cl[c].h]

\* resizemouse(), MotionNotify: the client leaves the tiled layer when the
\* new size nw, nh is inside the selected monitor and more than snap away
mousefloat(S, c, nw, nh) ==
    IF /\ S.mons[S.cl[c].mon].wx + nw >= S.mons[S.selmon].wx
       /\ S.mons[S.cl[c].mon].wx + nw <= S.mons[S.selmon].wx + S.mons[S.selmon].ww
       /\ S.mons[S.cl[c].mon].wy + nh >= S.mons[S.selmon].wy
       /\ S.mons[S.cl[c].mon].wy + nh <= S.mons[S.selmon].wy + S.mons[S.selmon].wh
       /\ ~S.cl[c].isfloating /\ HasArrange(S, S.selmon)
       /\ (Abs(nw - S.cl[c].w) > snap \/ Abs(nh - S.cl[c].h) > snap)
    THEN togglefloating(S)
    ELSE S

\* resizemouse(), MotionNotify: if(!selmon->lt->arrange || c->isfloating) resize()
mouseresize(S, c, nw, nh) ==
    IF ~HasArrange(S, S.selmon) \/ S.cl[c].isfloating
    THEN resize(S, c, S.cl[c].x, S.cl[c].y, nw, nh, TRUE)
    ELSE S

\* resizemouse() after ButtonRelease: the client follows to the monitor it is on
mouserelease(S, c, m) ==
    IF m # S.selmon THEN focus([sendmon(S, c, m) EXCEPT !.selmon = m], NULL) ELSE S

\* resizemouse() with client c: one MotionNotify asking for the size nw, nh,
\* then ButtonRelease
mousemotion(S, c, nw, nh) ==
    mouserelease(mouseresize(mousefloat(S, c, nw, nh), c, nw, nh), c,
                 recttomon(mouseresize(mousefloat(S, c, nw, nh), c, nw, nh),
                           ClientRect(mouseresize(mousefloat(S, c, nw, nh), c, nw, nh), c)))

\* void resizemouse(const Arg *arg), one MotionNotify at ex, ey then ButtonRelease
resizemouse(S, ex, ey) ==
    IF S.mons[S.selmon].sel = NULL THEN S
    ELSE IF S.cl[S.mons[S.selmon].sel].isfullscreen THEN S
    ELSE mousemotion(S, S.mons[S.selmon].sel,
                     MAX(ex - S.cl[S.mons[S.selmon].sel].x
                            - 2 * S.cl[S.mons[S.selmon].sel].bw + 1, 1),
                     MAX(ey - S.cl[S.mons[S.selmon].sel].y
                            - 2 * S.cl[S.mons[S.selmon].sel].bw + 1, 1))

\* movemouse(), resizemouse() without the test of c->isfullscreen
mousegrabs_nofs(S) == S.mons[S.selmon].sel # NULL

\* movemouse(), resizemouse(): whether the function goes on to grab the
\* pointer (a client is selected and it is not fullscreen)
mousegrabs(S) ==
    S.mons[S.selmon].sel # NULL /\ ~S.cl[S.mons[S.selmon].sel].isfullscreen

\* XGrabPointer() returning GrabSuccess, and XUngrabPointer()
XGrabPointer(X) == [X EXCEPT !.pointer = TRUE]
XUngrabPointer(X) == [X EXCEPT !.pointer = FALSE]

\* movemouse(), resizemouse(): whether the function reaches its loop: the
\* pointer is grabbed (ok) and, in movemouse(), getrootptr() succeeds (query)
mouseloops(S, kind, ok, query) ==
    mousegrabs(S) /\ ok /\ (kind = "move" => query)

\* movemouse(), resizemouse(): the locals once the pointer is grabbed: c, ocx,
\* ocy and (movemouse() only) the pointer position x, y from getrootptr()
mouselocals(S, kind, ptr) ==
    [kind |-> kind, c |-> S.mons[S.selmon].sel,
     ocx |-> S.cl[S.mons[S.selmon].sel].x, ocy |-> S.cl[S.mons[S.selmon].sel].y,
     x |-> ptr[1], y |-> ptr[2]]

\* movemouse(), MotionNotify: whether nx, ny lies in selmon's window area
moveinside(S, nx, ny) ==
    /\ nx >= S.mons[S.selmon].wx /\ nx <= S.mons[S.selmon].wx + S.mons[S.selmon].ww
    /\ ny >= S.mons[S.selmon].wy /\ ny <= S.mons[S.selmon].wy + S.mons[S.selmon].wh

\* movemouse(), MotionNotify: nx and ny after the snap tests
movesnapx(S, c, nx) ==
    IF Abs(S.mons[S.selmon].wx - nx) < snap THEN S.mons[S.selmon].wx
    ELSE IF Abs((S.mons[S.selmon].wx + S.mons[S.selmon].ww) - (nx + WIDTH(S, c))) < snap
    THEN S.mons[S.selmon].wx + S.mons[S.selmon].ww - WIDTH(S, c)
    ELSE nx
movesnapy(S, c, ny) ==
    IF Abs(S.mons[S.selmon].wy - ny) < snap THEN S.mons[S.selmon].wy
    ELSE IF Abs((S.mons[S.selmon].wy + S.mons[S.selmon].wh) - (ny + HEIGHT(S, c))) < snap
    THEN S.mons[S.selmon].wy + S.mons[S.selmon].wh - HEIGHT(S, c)
    ELSE ny

\* movemouse(), MotionNotify: togglefloating(NULL) if c is tiled and moved by
\* more than snap
movefloat(S, c, nx, ny) ==
    IF /\ ~S.cl[c].isfloating /\ HasArrange(S, S.selmon)
       /\ (Abs(nx - S.cl[c].x) > snap \/ Abs(ny - S.cl[c].y) > snap)
    THEN togglefloating(S)
    ELSE S

\* movemouse(), MotionNotify: if(!selmon->lt->arrange || c->isfloating) resize()
moveresize(S, c, nx, ny) ==
    IF ~HasArrange(S, S.selmon) \/ S.cl[c].isfloating
    THEN resize(S, c, nx, ny, S.cl[c].w, S.cl[c].h, TRUE)
    ELSE S

\* movemouse(), MotionNotify with nx and ny computed
moveto(S, c, nx, ny) ==
    IF moveinside(S, nx, ny)
    THEN moveresize(movefloat(S, c, movesnapx(S, c, nx), movesnapy(S, c, ny)),
                    c, movesnapx(S, c, nx), movesnapy(S, c, ny))
    ELSE moveresize(S, c, nx, ny)

\* the MotionNotify case of the loop of movemouse() or resizemouse(), P being
\* the locals and ex, ey the pointer position of the event
pumpmotion(S, P, ex, ey) ==
    IF P.kind = "move"
    THEN moveto(S, P.c, P.ocx + (ex - P.x), P.ocy + (ey - P.y))
    ELSE mouseresize(mousefloat(S, P.c, MAX(ex - P.ocx - 2 * S.cl[P.c].bw + 1, 1),
                                MAX(ey - P.ocy - 2 * S.cl[P.c].bw + 1, 1)),
                     P.c, MAX(ex - P.ocx - 2 * S.cl[P.c].bw + 1, 1),
                     MAX(ey - P.ocy - 2 * S.cl[P.c].bw + 1, 1))

\* void maprequest(XEvent *e) for window w, not override_redirect
maprequest(S, w, p) == IF S.cl[w].managed THEN S ELSE manage(S, w, p)

(***************************************************************************)
(* The process and its X connection                                        *)
(***************************************************************************)
\* <stdlib.h>
EXIT_SUCCESS == 0
EXIT_FAILURE == 1

\* the Xlib requests of killclient() and unmanage() that C23 is about
XRequest(X, req, w, arg) ==
    [X EXCEPT !.reqs = Append(@, [req |-> req, w |-> w, arg |-> arg])]

XGrabServer(X) == [XRequest(X, "XGrabServer", NULL, "") EXCEPT !.grabbed = TRUE]

\* XUngrabServer() left out
XUngrabServer_none(X) == X

XUngrabServer(X) == [XRequest(X, "XUngrabServer", NULL, "") EXCEPT !.grabbed = FALSE]

XSetErrorHandler(X, h) == [XRequest(X, "XSetErrorHandler", NULL, h) EXCEPT !.handler = h]

\* void die(const char *errstr, ...)
die(X, errstr) == [X EXCEPT !.out = errstr, !.phase = "exit", !.status = EXIT_FAILURE]

\* Bool sendevent(Client *c, Atom proto): protocols is what XGetWMProtocols()
\* returns for the window; the function returns proto \in protocols
sendevent(X, c, protocols, proto) ==
    IF proto \in protocols THEN XRequest(X, "XSendEvent", c, proto) ELSE X

\* killclient(): the branch of a client without WM_DELETE_WINDOW
killforce(X, c) ==
    XUngrabServer(
        XSetErrorHandler(
            XRequest(
                XRequest(
                    XRequest(XSetErrorHandler(XGrabServer(X), "xerrordummy"),
                             "XSetCloseDownMode", NULL, "DestroyAll"),
                    "XKillClient", c, ""),
                "XSync", NULL, ""),
            "xerror"))

\* void killclient(const Arg *arg): it leaves the world S alone
killclient(S, X, protocols) ==
    IF S.mons[S.selmon].sel = NULL THEN X
    ELSE IF "WM_DELETE_WINDOW" \in protocols
         THEN sendevent(X, S.mons[S.selmon].sel, protocols, "WM_DELETE_WINDOW")
         ELSE killforce(X, S.mons[S.selmon].sel)

\* unmanage(): the requests of if(!destroyed) { ... }
unmanagerestore(X, c, destroyed) ==
    IF destroyed THEN X
    ELSE XUngrabServer(
             XSetErrorHandler(
                 XRequest(
                     XRequest(
                         XRequest(
                             XRequest(XSetErrorHandler(XGrabServer(X), "xerrordummy"),
                                      "XConfigureWindow", c, "CWBorderWidth"),
                             "XUngrabButton", c, ""),
                         "XChangeProperty", c, "WithdrawnState"),
                     "XSync", NULL, ""),
                 "xerror"))

\* unmapnotify(): the requests
unmapnotifyrestore(X, c, send_event) ==
    IF send_event THEN XRequest(X, "XChangeProperty", c, "WithdrawnState")
    ELSE unmanagerestore(X, c, FALSE)

\* the error codes and the request codes of <X11/X.h>, <X11/Xproto.h> that
\* xerror() names, and one more of each
XErrors == {"BadWindow", "BadMatch", "BadDrawable", "BadAccess", "BadValue"}
XRequests ==
    {"X_SetInputFocus", "X_PolyText8", "X_PolyFillRectangle", "X_PolySegment",
     "X_ConfigureWindow", "X_GrabButton", "X_GrabKey", "X_CopyArea",
     "X_ChangeWindowAttributes", "X_MapWindow"}

\* xerror() without the case of X_ConfigureWindow
xerrorbenign_noconf(request_code, error_code) ==
    \/ error_code = "BadWindow"
    \/ (request_code = "X_SetInputFocus" /\ error_code = "BadMatch")
    \/ (request_code = "X_PolyText8" /\ error_code = "BadDrawable")
    \/ (request_code = "X_PolyFillRectangle" /\ error_code = "BadDrawable")
    \/ (request_code = "X_PolySegment" /\ error_code = "BadDrawable")
    \/ (request_code = "X_GrabButton" /\ error_code = "BadAccess")
    \/ (request_code = "X_GrabKey" /\ error_code = "BadAccess")
    \/ (request_code = "X_CopyArea" /\ error_code = "BadDrawable")

\* xerror(): the condition of return 0
xerrorbenign(request_code, error_code) ==
    \/ error_code = "BadWindow"
    \/ (request_code = "X_SetInputFocus" /\ error_code = "BadMatch")
    \/ (request_code = "X_PolyText8" /\ error_code = "BadDrawable")
    \/ (request_code = "X_PolyFillRectangle" /\ error_code = "BadDrawable")
    \/ (request_code = "X_PolySegment" /\ error_code = "BadDrawable")
    \/ (request_code = "X_ConfigureWindow" /\ error_code = "BadMatch")
    \/ (request_code = "X_GrabButton" /\ error_code = "BadAccess")
    \/ (request_code = "X_GrabKey" /\ error_code = "BadAccess")
    \/ (request_code = "X_CopyArea" /\ error_code = "BadDrawable")

\* xerrorxlib(): Xlib's default handler prints the error and exits
xerrorxlib(X) == [X EXCEPT !.out = "fatal", !.phase = "exit", !.status = EXIT_FAILURE]

\* int xerror(Display *dpy, XErrorEvent *ee)
xerror(X, request_code, error_code) ==
    IF xerrorbenign(request_code, error_code) THEN X ELSE xerrorxlib(X)

\* int xerror(Display *dpy, XErrorEvent *ee), the second copy in the source
xerror2(X, request_code, error_code) ==
    IF \/ xerrorbenign(request_code, error_code)
       \/ (request_code = "X_ChangeWindowAttributes" /\ error_code = "BadMatch")
    THEN X
    ELSE xerrorxlib(X)

\* checkotherwm(): otherwm is whether selecting SubstructureRedirectMask on
\* the root fails, in which case xerrorstart() runs
checkotherwm(X, otherwm) ==
    IF otherwm
    THEN die([X EXCEPT !.handler = "xerrorstart"], "otherwm")
    ELSE [X EXCEPT !.handler = "xerror"]

\* main(): setup(), scan() and run() follow unless the program has exited
mainrun(X) == IF X.phase = "exit" THEN X ELSE [X EXCEPT !.phase = "run"]

\* int main(int argc, char *argv[]) up to run(); argv holds the arguments
\* after the program's name, display is whether XOpenDisplay() succeeds
main(X, argv, display, otherwm) ==
    IF Len(argv) = 1 /\ argv[1] = "-v" THEN die(X, "version")
    ELSE IF Len(argv) # 0 THEN die(X, "usage")
    ELSE IF ~display THEN die(X, "nodisplay")
    ELSE mainrun(checkotherwm([X EXCEPT !.opened = TRUE], otherwm))

\* void quit(const Arg *arg)
quit(X) == [X EXCEPT !.running = FALSE]

\* cleanup(): while(m->stack) unmanage(m->stack, False) for monitor m; r.S is
\* the world, r.X the process
RECURSIVE cleanupstack(_, _, _)
cleanupstack(r, m, fuel) ==
    IF r.S.mons[m].stack = NULL \/ fuel = 0 THEN r
    ELSE cleanupstack([S |-> unmanage(r.S, r.S.mons[m].stack, FALSE),
                       X |-> unmanagerestore(r.X, r.S.mons[m].stack, FALSE)],
                      m, fuel - 1)

\* cleanup(): for(m = mons; m; m = m->next) while(m->stack) ..., from monitor
\* m on
RECURSIVE cleanupclients(_, _)
cleanupclients(r, m) ==
    IF m > Len(r.S.mons) THEN r
    ELSE cleanupclients(cleanupstack(r, m, NumWin), m + 1)

\* cleanup(): view(&a) with a.ui = ~0; selmon->lt = &foo, a layout without
\* an arrange function
cleanupview(S) ==
    [view(S, UIntRange - 1) EXCEPT !.mons[S.selmon].lt = ""]

\* void cleanupmon(Monitor *mon) for mon == mons
cleanupmon(S) == [S EXCEPT !.mons = [i \in 1..(Len(S.mons) - 1) |-> S.mons[i + 1]]]

\* cleanup(): while(mons) cleanupmon(mons)
RECURSIVE cleanupmons(_, _)
cleanupmons(S, fuel) ==
    IF Len(S.mons) = 0 \/ fuel = 0 THEN S ELSE cleanupmons(cleanupmon(S), fuel - 1)

\* cleanup() up to the loop that frees the monitors
cleanupunmanage(S, X) == cleanupclients([S |-> cleanupview(S), X |-> X], 1)

\* void cleanup(void): the world and the process it leaves
cleanup(S, X) ==
    [S |-> cleanupmons(cleanupunmanage(S, X).S, Len(S.mons)),
     X |-> cleanupunmanage(S, X).X]

\* main() after run(): cleanup(); XCloseDisplay(dpy); return EXIT_SUCCESS
\* (dorestart is set by restart() only)
mainreturn(X) == [X EXCEPT !.phase = "exit", !.status = EXIT_SUCCESS, !.opened = FALSE]

\* the argument lists tried
Argvs == {<<>>, <<"-v">>, <<"-x">>, <<"-v", "-v">>, <<"-x", "-v">>}

(***************************************************************************)
(* What the X server and the user can supply                               *)
(***************************************************************************)
Rect(x, y, w, h) == [x |-> x, y |-> y, w |-> w, h |-> h]

\* the Xinerama screen lists: one screen, or the same area split in two
OneScreen == <<Rect(0, 0, ScreenW, ScreenH)>>
TwoScreens == <<Rect(0, 0, ScreenW \div 2, ScreenH),
                Rect(ScreenW \div 2, 0, ScreenW \div 2, ScreenH)>>
ScreenInfos == {OneScreen, TwoScreens}

\* more of them: two screens one above the other, three screens, and two
\* screens of which the first is reported twice
StackedScreens == <<Rect(0, 0, ScreenW, ScreenH \div 2),
                    Rect(0, ScreenH \div 2, ScreenW, ScreenH \div 2)>>
CornerScreens == <<Rect(0, 0, ScreenW \div 2, ScreenH \div 2),
                   Rect(ScreenW \div 2, 0, ScreenW \div 2, ScreenH \div 2),
                   Rect(0, ScreenH \div 2, ScreenW \div 2, ScreenH \div 2)>>
TwinScreens == <<TwoScreens[1], TwoScreens[1], TwoScreens[2]>>
MonInfos == ScreenInfos \cup {StackedScreens, CornerScreens, TwinScreens}

\* arg->f of setmfact() in hundredths: steps, and absolute values plus 1.0
MfactArgs == {-5, 5, -50, 45, 103, 150, 190, 197}

\* tag masks a key binding or a rule can carry
TagBit(k) == Shl(1, k)
Masks == {0, TAGMASK, AllOnes} \cup {TagBit(k) : k \in 0..(NumTags - 1)}
Dirs == {-1, 1}

\* XSizeHints of a window
NoHints ==
    [flags |-> {}, base_width |-> 0, base_height |-> 0, min_width |-> 0,
     min_height |-> 0, width_inc |-> 0, height_inc |-> 0, max_width |-> 0,
     max_height |-> 0, min_aspect |-> <<0, 1>>, max_aspect |-> <<0, 1>>]
FixedHints ==
    [NoHints EXCEPT !.flags = {"PMinSize", "PMaxSize"},
                    !.min_width = 20, !.min_height = 10,
                    !.max_width = 20, !.max_height = 10]

\* resize increments with a maximum size that is no multiple of them
IncHints ==
    [NoHints EXCEPT !.flags = {"PResizeInc", "PMaxSize"},
                    !.width_inc = 10, !.height_inc = 10,
                    !.max_width = 25, !.max_height = 25]
\* a minimum size
MinHints ==
    [NoHints EXCEPT !.flags = {"PMinSize"}, !.min_width = 120, !.min_height = 30]

\* XWindowAttributes of a window asking to be mapped
WinAttr(x, y, w, h, b) ==
    [x |-> x, y |-> y, width |-> w, height |-> h, border_width |-> b]

\* what manage() reads from the server about window w: its attributes, its
\* WM_TRANSIENT_FOR, the rules its class matches, its size hints and whether
\* its _NET_WM_STATE / _NET_WM_WINDOW_TYPE name fullscreen / dialog
MapParam(wa, trans, matched, size, fs, dialog) ==
    [wa |-> wa, trans |-> trans, matched |-> matched, size |-> size,
     fs |-> fs, dialog |-> dialog]
\* a plain window, and one that the rule with a tag mask matches
PlainParams ==
    {MapParam(WinAttr(0, 0, 20, 10, 1), NULL, {}, NoHints, FALSE, FALSE),
     MapParam(WinAttr(0, 0, 20, 10, 1), NULL, {2}, NoHints, FALSE, FALSE)}
\* a window that is transient for another one
TransientParams(w) ==
    {MapParam(WinAttr(10, 10, 20, 10, 1), t, {}, NoHints, FALSE, FALSE) :
         t \in Win \ {w}}
\* windows with WM_NORMAL_HINTS
HintParams ==
    {MapParam(WinAttr(0, 0, 20, 10, 1), NULL, {}, size, FALSE, FALSE) :
         size \in {NoHints, FixedHints, IncHints, MinHints}}
\* pointer positions of a MotionNotify
Pointers == {<<10, 10>>, <<90, 60>>, <<250, 150>>}
MapParams(w) ==
    PlainParams \cup TransientParams(w) \cup
    {MapParam(WinAttr(190, 120, 20, 10, 1), NULL, {1}, FixedHints, FALSE, FALSE),
     MapParam(WinAttr(0, 0, 20, 10, 1), NULL, {}, NoHints, TRUE, FALSE)}

\* a window whose _NET_WM_STATE is fullscreen
FullscreenParams == {MapParam(WinAttr(0, 0, 20, 10, 1), NULL, {}, NoHints, TRUE, FALSE)}
\* where the pointer is when movemouse() asks getrootptr()
GrabPoint == <<10, 10>>

\* a window whose _NET_WM_WINDOW_TYPE is dialog
DialogParams == {MapParam(WinAttr(0, 0, 20, 10, 1), NULL, {}, NoHints, FALSE, TRUE)}

\* windows of several sizes at several places, dialogs (floating) or not
PlaceParams ==
    {MapParam(WinAttr(at[1], at[2], size[1], size[2], 1), NULL, {}, NoHints, FALSE, dialog) :
         at \in {<<0, 0>>, <<3, 3>>, <<250, 150>>},
         size \in {<<20, 10>>, <<88, 100>>, <<90, 114>>},
         dialog \in BOOLEAN}

\* XConfigureRequestEvent contents
ConfReq(mask, x, y, w, h, b) ==
    [mask |-> mask, x |-> x, y |-> y, width |-> w, height |-> h,
     border_width |-> b]
ConfReqs ==
    {ConfReq({"CWBorderWidth"}, 0, 0, 0, 0, 2),
     ConfReq({"CWX", "CWY"}, 3, 3, 0, 0, 0),
     ConfReq({"CWWidth", "CWHeight"}, 0, 0, 210, 130, 0)}

(***************************************************************************)
(* The state machine                                                       *)
(***************************************************************************)
\* the last n elements of the sequence s
LastOf(s, n) == IF Len(s) > n THEN SubSeq(s, Len(s) - n + 1, Len(s)) ELSE s

\* hist.ops holds the last hist.keep handlers: name, client, argument and the
\* world it started from for a handler named in hist.watch, just "other" for
\* any other; hist.left is the number of handlers still to run in a bounded
\* run
Remember(op, c, arg) ==
    hist' = [hist EXCEPT
                !.left = IF hist.bounded THEN hist.left - 1 ELSE hist.left,
                !.ops = LastOf(Append(hist.ops,
                                      IF op \in hist.watch
                                      THEN [op |-> op, c |-> c, arg |-> arg, pre |-> World,
                                            proc |-> proc]
                                      ELSE [op |-> "other"]),
                               hist.keep)]

\* the world before setup(): no monitors, no clients
Blank ==
    [mons |-> <<>>, cl |-> [w \in Win |-> NoClient], selmon |-> NULL,
     prevmon |-> NULL, prevclient |-> NULL, sw |-> 0, sh |-> 0, gappx |-> 0]

\* void setup(void), as far as the model's state goes; ptr is the monitor
\* under the pointer
setup(info, ptr) ==
    focus(updategeom([Blank EXCEPT !.gappx = uselessgap, !.sw = ScreenW, !.sh = ScreenH],
                     info, ptr).S, NULL)

\* the variables hold world S
Holds(S) ==
    /\ mons = S.mons
    /\ cl = S.cl
    /\ selmon = S.selmon
    /\ prevmon = S.prevmon
    /\ prevclient = S.prevclient
    /\ sw = S.sw
    /\ sh = S.sh
    /\ gappx = S.gappx

\* the state after setup(), the last keep handlers remembered (those of watch
\* in full), and steps handlers to run if the run is bounded
InitOn(infos, keep, watch, bounded, steps) ==
    /\ \E info \in infos : \E ptr \in 1..Len(info) : Holds(setup(info, ptr))
    /\ pump = NoPump
    /\ proc = Running
    /\ hist = [keep |-> keep, watch |-> watch, bounded |-> bounded,
               left |-> steps, ops |-> <<>>]

InitWith(keep, watch, bounded, steps) == InitOn(ScreenInfos, keep, watch, bounded, steps)

Init == InitWith(0, {}, TRUE, MaxSteps)

Managed == {w \in Win : cl[w].managed}

MapRequest(w, p) ==
    /\ ~cl[w].managed
    /\ \E S \in calloc(World, w) : Commit(manage(S, w, p))
    /\ Remember("maprequest", w, p)

DestroyNotify(w) ==
    /\ cl[w].managed
    /\ Serve(unmanage(World, w, TRUE), unmanagerestore(Fresh(proc), w, TRUE))
    /\ Remember("destroynotify", w, 0)

UnmapNotify(w, send_event) ==
    /\ cl[w].managed
    /\ Serve(unmapnotify(World, w, send_event), unmapnotifyrestore(Fresh(proc), w, send_event))
    /\ Remember("unmapnotify", w, send_event)

ClientMessageState(w, verb) ==
    /\ cl[w].managed
    /\ Commit(clientmessage_state(World, w, verb))
    /\ Remember("netwmstate", w, verb)

ClientMessageActive(w) ==
    /\ cl[w].managed
    /\ Commit(clientmessage_active(World, w))
    /\ Remember("netactivewindow", w, 0)

ConfigureRequest(w, ev) ==
    /\ cl[w].managed
    /\ Commit(configurerequest(World, w, ev))
    /\ Remember("configurerequest", w, ev)

ConfigureNotify(info, ptr) ==
    /\ Commit(configurenotify(World, ScreenW, ScreenH, info, ptr))
    /\ Remember("configurenotify", NULL, <<info, ptr>>)

EnterNotify(w) ==
    /\ cl[w].managed
    /\ Commit(enternotify(World, w, cl[w].mon))
    /\ Remember("enternotify", w, 0)

EnterRoot(m) ==
    /\ Commit(enternotify(World, NULL, m))
    /\ Remember("enternotify", NULL, m)

View(ui) == Commit(view(World, ui)) /\ Remember("view", NULL, ui)
ToggleView(ui) == Commit(toggleview(World, ui)) /\ Remember("toggleview", NULL, ui)
Tag(ui) == Commit(tag(World, ui)) /\ Remember("tag", mons[selmon].sel, ui)
ToggleTag(ui) == Commit(toggletag(World, ui)) /\ Remember("toggletag", mons[selmon].sel, ui)
TagRel(i) == Commit(tagrel(World, i)) /\ Remember("tagrel", mons[selmon].sel, i)
FocusStack(i) == Commit(focusstack(World, i)) /\ Remember("focusstack", mons[selmon].sel, i)
FocusMon(i) == Commit(focusmon(World, i)) /\ Remember("focusmon", NULL, i)
TagMon(i) == Commit(tagmon(World, i)) /\ Remember("tagmon", mons[selmon].sel, i)
MoveStack(i) == Commit(movestack(World, i)) /\ Remember("movestack", mons[selmon].sel, i)
ToggleFullscreen == Commit(togglefullscreen(World)) /\ Remember("togglefullscreen", mons[selmon].sel, 0)
ToggleFloating == Commit(togglefloating(World)) /\ Remember("togglefloating", mons[selmon].sel, 0)
SetLayout(v) == Commit(setlayout(World, v)) /\ Remember("setlayout", NULL, v)

\* swapfocus(); fault is whether the read of c->mon through a NULL c, where
\* there is one, ends the process (the behaviour is undefined: the process
\* takes SIGSEGV, or the read yields some monitor and restack() goes on)
SwapFocus(fault) ==
    /\ fault => swapfocusnull(World)
    /\ Serve(swapfocus(World), IF fault THEN segv(Fresh(proc)) ELSE Fresh(proc))
    /\ Remember("swapfocus", swapfocusfind(World), swapfocushit(World))

\* quit(), bound to a key: run() dispatched the KeyPress
Quit == Serve(World, quit(Fresh(proc))) /\ Remember("quit", NULL, 0)

\* run() has returned: the rest of main()
Cleanup ==
    /\ proc.phase = "run"
    /\ ~rundispatches(proc)
    /\ pump.kind = "idle"
    /\ pump' = pump
    /\ proc' = mainreturn(cleanup(World, Fresh(proc)).X)
    /\ Settle(cleanup(World, Fresh(proc)).S)
    /\ Remember("cleanup", NULL, 0)

ResizeMouse(e) ==
    Commit(resizemouse(World, e[1], e[2])) /\ Remember("resizemouse", mons[selmon].sel, e)

\* movemouse() or resizemouse() up to the loop; ok is whether XGrabPointer()
\* succeeds, query whether getrootptr() does
MouseGrab(kind, ptr, ok, query) ==
    /\ proc.phase = "run"
    /\ pump.kind = "idle"
    /\ pump' = IF mouseloops(World, kind, ok, query)
                THEN mouselocals(World, kind, ptr)
                ELSE pump
    /\ proc' = IF mousegrabs(World) /\ ok THEN XGrabPointer(Fresh(proc)) ELSE Fresh(proc)
    /\ Settle(World)
    /\ Remember("mousegrab", mons[selmon].sel, <<kind, ok, query>>)

\* the events the loop of movemouse() and resizemouse() takes, one turn each
PumpMotion(e) ==
    /\ Turn(pumpmotion(World, pump, e[1], e[2]), pump)
    /\ Remember("pumpmotion", pump.c, e)

PumpConfigureRequest(w, ev) ==
    /\ Turn(IF cl[w].managed THEN configurerequest(World, w, ev) ELSE World, pump)
    /\ Remember("pumpconfigurerequest", w, ev)

PumpMapRequest(w, p) ==
    /\ \E S \in (IF cl[w].managed THEN {World} ELSE calloc(World, w)) :
          Turn(maprequest(S, w, p), pump)
    /\ Remember("pumpmaprequest", w, p)

PumpExpose ==
    /\ Turn(World, pump)
    /\ Remember("pumpexpose", NULL, 0)

\* ButtonRelease ends the loop: the rest of movemouse() or resizemouse()
ButtonRelease ==
    /\ proc.phase = "run"
    /\ pump.kind # "idle"
    /\ pump' = NoPump
    /\ proc' = XUngrabPointer(Fresh(proc))
    /\ Settle(mouserelease(World, pump.c, recttomon(World, ClientRect(World, pump.c))))
    /\ Remember("buttonrelease", pump.c, 0)

ShiftView(i) == Commit(shiftview(World, i)) /\ Remember("shiftview", NULL, i)

IncNMaster(i) == Commit(incnmaster(World, i)) /\ Remember("incnmaster", NULL, i)

SetMfact(f) == Commit(setmfact(World, f)) /\ Remember("setmfact", NULL, f)

ClientMessage(w, verb, l1, l2) ==
    /\ Commit(clientmessage(World, w, verb, l1, l2))
    /\ Remember("clientmessage", w, <<verb, l1, l2>>)

\* protocols is the window's WM_PROTOCOLS
KillClient(protocols) ==
    /\ Serve(World, killclient(World, Fresh(proc), protocols))
    /\ Remember("killclient", mons[selmon].sel, protocols)

\* the X server reports an error of a request made by a handler
XError(request_code, error_code) ==
    /\ Serve(World, xerror(Fresh(proc), request_code, error_code))
    /\ Remember("xerror", NULL, <<request_code, error_code>>)

XError2(request_code, error_code) ==
    /\ Serve(World, xerror2(Fresh(proc), request_code, error_code))
    /\ Remember("xerror2", NULL, <<request_code, error_code>>)

\* the program is started: main() up to run(), with setup() if it gets there
Main(argv, display, otherwm, info, ptr) ==
    /\ proc.phase = "exec"
    /\ proc' = main(proc, argv, display, otherwm)
    /\ pump' = pump
    /\ Settle(IF main(proc, argv, display, otherwm).phase = "run"
              THEN setup(info, ptr) ELSE World)
    /\ Remember("main", NULL, argv)

Next ==
    \/ \E w \in 1..MainWin : \E p \in MapParams(w) : MapRequest(w, p)
    \/ \E w \in Win : DestroyNotify(w)
    \/ \E w \in Win : \E send_event \in BOOLEAN : UnmapNotify(w, send_event)
    \/ \E w \in Win : \E verb \in 0..2 : ClientMessageState(w, verb)
    \/ \E w \in Win : ClientMessageActive(w)
    \/ \E w \in Win : \E ev \in ConfReqs : ConfigureRequest(w, ev)
    \/ \E info \in ScreenInfos : \E ptr \in 1..Len(info) : ConfigureNotify(info, ptr)
    \/ \E w \in Win : EnterNotify(w)
    \/ \E m \in 1..Len(mons) : EnterRoot(m)
    \/ \E ui \in Masks : View(ui)
    \/ \E ui \in Masks : ToggleView(ui)
    \/ \E ui \in Masks : Tag(ui)
    \/ \E ui \in Masks : ToggleTag(ui)
    \/ \E i \in Dirs : TagRel(i)
    \/ \E i \in Dirs : FocusStack(i)
    \/ \E i \in Dirs : FocusMon(i)
    \/ \E i \in Dirs : TagMon(i)
    \/ \E i \in Dirs : MoveStack(i)
    \/ ToggleFullscreen
    \/ ToggleFloating
    \/ \E v \in {"tile", "float", "monocle"} : SetLayout(v)

Spec == Init /\ [][Next]_vars

\* the handlers that change or depend on the tag-sets, the last three view()
\* calls remembered
NextView ==
    \/ \E w \in 1..MainWin : \E p \in PlainParams : MapRequest(w, p)
    \/ \E ui \in Masks : View(ui)
    \/ \E ui \in Masks : ToggleView(ui)
    \/ \E ui \in Masks : Tag(ui)
    \/ \E i \in Dirs : FocusMon(i)

SpecView == InitWith(3, {"view"}, TRUE, ViewSteps) /\ [][NextView]_vars

\* the handlers that build client lists with visible and invisible clients
\* and move the selection, the last two focusstack() calls remembered
NextFocus ==
    \/ \E w \in Win : \E p \in PlainParams \cup TransientParams(w) : MapRequest(w, p)
    \/ \E info \in ScreenInfos : \E ptr \in 1..Len(info) : ConfigureNotify(info, ptr)
    \/ \E m \in 1..Len(mons) : EnterRoot(m)
    \/ \E i \in Dirs : FocusStack(i)

\* the handlers that put clients into fullscreen and back, the last three
\* fullscreen requests remembered
NextFullscreen ==
    \/ \E w \in 1..MainWin : \E p \in MapParams(w) : MapRequest(w, p)
    \/ \E w \in Win : \E verb \in 0..2 : ClientMessageState(w, verb)
    \/ ToggleFullscreen
    \/ ToggleFloating
    \/ \E v \in {"tile", "float", "monocle"} : SetLayout(v)

SpecFullscreen ==
    InitWith(3, {"netwmstate", "togglefullscreen"}, TRUE, FullscreenSteps)
        /\ [][NextFullscreen]_vars

\* the handlers that give clients size hints and resize them
NextHints ==
    \/ \E w \in 1..MainWin : \E p \in HintParams : MapRequest(w, p)
    \/ \E w \in Win : \E send_event \in BOOLEAN : UnmapNotify(w, send_event)
    \/ \E e \in Pointers : ResizeMouse(e)
    \/ ToggleFloating
    \/ \E v \in {"tile", "float", "monocle"} : SetLayout(v)

SpecHints == InitWith(0, {}, TRUE, HintSteps) /\ [][NextHints]_vars

SpecFocus == InitWith(2, {"focusstack"}, TRUE, FocusSteps) /\ [][NextFocus]_vars

\* the handlers that spread clients over the monitors, order their lists and
\* change the monitors, the last configurenotify() remembered
NextDrain ==
    \/ \E w \in Win : \E p \in PlainParams : MapRequest(w, p)
    \/ \E info \in ScreenInfos : \E ptr \in 1..Len(info) : ConfigureNotify(info, ptr)
    \/ \E m \in 1..Len(mons) : EnterRoot(m)
    \/ \E i \in Dirs : FocusStack(i)

\* the handlers that change the tags of clients and the tag-sets of monitors,
\* the last of _NET_ACTIVE_WINDOW, tag() and toggleview() remembered
NextTags ==
    \/ \E w \in Win : \E p \in PlainParams : MapRequest(w, p)
    \/ \E w \in Win : ClientMessageActive(w)
    \/ \E m \in 1..Len(mons) : EnterRoot(m)
    \/ \E ui \in Masks : View(ui)
    \/ \E ui \in Masks : ToggleView(ui)
    \/ \E ui \in Masks : Tag(ui)

SpecTags ==
    InitWith(1, {"netactivewindow", "tag", "toggleview"}, TRUE, TagSteps)
        /\ [][NextTags]_vars

\* the handlers that move clients between monitors and inside the client
\* list, with those that make clients invisible or floating, the last tagmon()
\* or movestack() remembered
NextMove ==
    \/ \E w \in Win : \E p \in PlainParams : MapRequest(w, p)
    \/ \E m \in 1..Len(mons) : EnterRoot(m)
    \/ \E ui \in Masks : View(ui)
    \/ \E i \in Dirs : FocusStack(i)
    \/ \E i \in Dirs : TagMon(i)
    \/ \E i \in Dirs : MoveStack(i)
    \/ ToggleFloating

SpecMove == InitWith(1, {"tagmon", "movestack"}, TRUE, MoveSteps) /\ [][NextMove]_vars

\* the handlers that manage and unmanage clients and move the focus, the
\* last MapRequest, DestroyNotify, UnmapNotify or EnterNotify remembered
NextManage ==
    \/ \E w \in Win : \E p \in MapParams(w) \cup DialogParams : MapRequest(w, p)
    \/ \E w \in Win : DestroyNotify(w)
    \/ \E w \in Win : \E send_event \in BOOLEAN : UnmapNotify(w, send_event)
    \/ \E w \in Win : EnterNotify(w)
    \/ \E m \in 1..Len(mons) : EnterRoot(m)
    \/ \E ui \in Masks : View(ui)

SpecManage ==
    InitWith(1, {"maprequest", "destroynotify", "unmapnotify", "enternotify"},
             TRUE, ManageSteps)
        /\ [][NextManage]_vars

\* movemouse() and resizemouse() with the events their loops take, and the
\* handlers that make clients tiled, floating or fullscreen before; the last
\* step remembered
NextMouse ==
    \/ \E w \in 1..MainWin : \E p \in PlainParams \cup FullscreenParams : MapRequest(w, p)
    \/ ToggleFloating
    \/ \E kind \in {"move", "resize"} : \E ok \in BOOLEAN : \E query \in BOOLEAN :
          MouseGrab(kind, GrabPoint, ok, query)
    \/ \E e \in Pointers : PumpMotion(e)
    \/ \E w \in Win : \E ev \in ConfReqs : PumpConfigureRequest(w, ev)
    \/ \E w \in Win : \E p \in PlainParams : PumpMapRequest(w, p)
    \/ PumpExpose
    \/ ButtonRelease

SpecMouse ==
    InitWith(1, {"mousegrab", "togglefloating", "pumpmotion", "pumpconfigurerequest",
                 "pumpmaprequest", "pumpexpose"}, TRUE, MouseSteps)
        /\ [][NextMouse]_vars

\* the handlers that depend on the monitors' geometry and layout, the last
\* one remembered
NextMon ==
    \/ \E w \in 1..MainWin : \E p \in PlainParams : MapRequest(w, p)
    \/ \E i \in Dirs : FocusMon(i)
    \/ \E v \in {"tile", "float", "monocle"} : SetLayout(v)
    \/ \E w \in Win : \E ev \in ConfReqs : ConfigureRequest(w, ev)
    \/ \E info \in MonInfos : \E ptr \in 1..Len(info) : ConfigureNotify(info, ptr)

SpecMon ==
    InitOn(MonInfos, 1, {"focusmon", "configurerequest", "configurenotify"}, TRUE, MonSteps)
        /\ [][NextMon]_vars

\* _NET_WM_STATE messages and setmfact(), the last one remembered
NextNet ==
    \/ \E w \in 1..MainWin : \E p \in MapParams(w) : MapRequest(w, p)
    \/ \E w \in Win : \E verb \in 0..2 : \E l1, l2 \in BOOLEAN : ClientMessage(w, verb, l1, l2)
    \/ \E f \in MfactArgs : SetMfact(f)
    \/ \E v \in {"tile", "float", "monocle"} : SetLayout(v)
    \/ \E i \in Dirs : FocusMon(i)

SpecNet == InitWith(1, {"clientmessage", "setmfact"}, TRUE, NetSteps) /\ [][NextNet]_vars

\* the handlers that change what tile() works on
NextTile ==
    \/ \E w \in Win : \E p \in PlainParams : MapRequest(w, p)
    \/ \E i \in Dirs : IncNMaster(i)
    \/ \E f \in {-5, 5} : SetMfact(f)
    \/ ToggleFloating

SpecTile == InitWith(0, {}, TRUE, TileSteps) /\ [][NextTile]_vars

\* windows are placed on the monitors, in any layout
NextPlace ==
    \/ \E w \in 1..MainWin : \E p \in PlaceParams : MapRequest(w, p)
    \/ \E v \in {"tile", "float", "monocle"} : SetLayout(v)
    \/ \E i \in Dirs : FocusMon(i)

SpecPlace == InitWith(1, {"maprequest"}, TRUE, PlaceSteps) /\ [][NextPlace]_vars

\* the handlers that change the tag-sets of the monitors, with monitors that
\* come and go; the last two remembered
NextShift ==
    \/ \E w \in 1..MainWin : \E p \in PlainParams : MapRequest(w, p)
    \/ \E w \in Win : ClientMessageActive(w)
    \/ \E ui \in Masks : View(ui)
    \/ \E ui \in Masks : ToggleView(ui)
    \/ \E i \in Dirs : ShiftView(i)
    \/ \E info \in ScreenInfos : \E ptr \in 1..Len(info) : ConfigureNotify(info, ptr)

SpecShift == InitWith(2, {"shiftview"}, TRUE, ShiftSteps) /\ [][NextShift]_vars

\* the handlers that add and remove clients and monitors and move the
\* selection between monitors, the last one remembered
NextSel ==
    \/ \E w \in 1..MainWin : \E p \in MapParams(w) : MapRequest(w, p)
    \/ \E w \in Win : DestroyNotify(w)
    \/ \E ui \in Masks : View(ui)
    \/ \E ui \in Masks : Tag(ui)
    \/ \E i \in Dirs : TagMon(i)
    \/ \E i \in Dirs : FocusMon(i)
    \/ \E m \in 1..Len(mons) : EnterRoot(m)
    \/ \E info \in ScreenInfos : \E ptr \in 1..Len(info) : ConfigureNotify(info, ptr)

\* the handlers that unfocus clients, remove them and move the selection,
\* with swapfocus(); the last one remembered
NextSwap ==
    \/ \E w \in Win : \E p \in PlainParams : MapRequest(w, p)
    \/ \E w \in Win : DestroyNotify(w)
    \/ \E i \in Dirs : FocusStack(i)
    \/ \E i \in Dirs : FocusMon(i)
    \/ \E i \in Dirs : TagMon(i)
    \/ \E ui \in Masks : View(ui)
    \/ \E fault \in BOOLEAN : SwapFocus(fault)

SpecSwap == InitWith(1, {"swapfocus"}, TRUE, SwapSteps) /\ [][NextSwap]_vars

\* the handlers that fill the monitors with clients, visible and not, then
\* quit() and the end of main(); the last two remembered
NextQuit ==
    \/ \E w \in Win : \E p \in PlainParams : MapRequest(w, p)
    \/ \E m \in 1..Len(mons) : EnterRoot(m)
    \/ \E ui \in Masks : View(ui)
    \/ Quit
    \/ Cleanup

SpecQuit == InitWith(2, {"quit", "cleanup"}, TRUE, QuitSteps) /\ [][NextQuit]_vars

SpecSel ==
    InitWith(1, {"destroynotify", "tagmon", "configurenotify"}, TRUE, SelSteps)
        /\ [][NextSel]_vars

NextProc ==
    \/ \E argv \in Argvs : \E display, otherwm \in BOOLEAN :
           \E info \in ScreenInfos : \E ptr \in 1..Len(info) :
               Main(argv, display, otherwm, info, ptr)
    \/ \E w \in 1..MainWin : \E p \in PlainParams : MapRequest(w, p)
    \/ \E protocols \in SUBSET {"WM_DELETE_WINDOW", "WM_TAKE_FOCUS"} : KillClient(protocols)
    \/ \E w \in Win : DestroyNotify(w)
    \/ \E w \in Win : \E send_event \in BOOLEAN : UnmapNotify(w, send_event)
    \/ \E i \in Dirs : FocusStack(i)
    \/ \E request_code \in XRequests : \E error_code \in XErrors :
           XError(request_code, error_code)
    \/ \E request_code \in XRequests : \E error_code \in XErrors :
           XError2(request_code, error_code)

\* the program from its start
SpecProc ==
    /\ Holds(Blank)
    /\ pump = NoPump
    /\ proc = Exec
    /\ hist = [keep |-> 1,
               watch |-> {"main", "killclient", "destroynotify", "unmapnotify",
                          "xerror", "xerror2", "maprequest", "focusstack"},
               bounded |-> TRUE, left |-> ProcSteps, ops |-> <<>>]
    /\ [][NextProc]_vars

SpecDrain == InitWith(1, {"configurenotify"}, TRUE, DrainSteps) /\ [][NextDrain]_vars

(***************************************************************************)
(* Properties                                                              *)
(***************************************************************************)
\* the number of times c occurs in the sequence s
Count(s, c) == Cardinality({i \in 1..Len(s) : s[i] = c})

\* C1: each managed client is exactly once in the client list and exactly
\* once in the focus stack of the monitor its mon field names and in no other
\* monitor's lists; every client in a monitor's lists is managed and points
\* back at that monitor; a monitor's client list and focus stack hold the
\* same clients
ListsConsistent ==
    /\ \A c \in Win : cl[c].managed =>
          /\ cl[c].mon \in 1..Len(mons)
          /\ \A m \in 1..Len(mons) :
                /\ Count(ClientList(World, m), c) = (IF m = cl[c].mon THEN 1 ELSE 0)
                /\ Count(StackList(World, m), c) = (IF m = cl[c].mon THEN 1 ELSE 0)
    /\ \A m \in 1..Len(mons) :
          /\ SeqToSet(ClientList(World, m)) = SeqToSet(StackList(World, m))
          /\ \A c \in SeqToSet(ClientList(World, m)) : cl[c].managed /\ cl[c].mon = m

\* a single monitor is left and holds every window, the client list and the
\* focus stack in different orders
ListsWitness ==
    /\ Len(mons) = 1
    /\ \A c \in 1..MainWin : cl[c].managed
    /\ Len(ClientList(World, 1)) = MainWin
    /\ ClientList(World, 1) # StackList(World, 1)

\* C2: the tag mask of every managed client is nonzero and has no bit
\* outside TAGMASK
TagsValid ==
    \A c \in Win : cl[c].managed =>
        cl[c].tags # 0 /\ BitAnd(cl[c].tags, TAGMASK) = cl[c].tags

\* one client carries every tag, another the tag of a rule only
TagsWitness ==
    \E c, d \in Win :
        /\ cl[c].managed /\ cl[c].tags = TAGMASK
        /\ cl[d].managed /\ cl[d].tags = TagBit(NumTags - 1)

\* C3: on every monitor, selected or not, the selected client (if there is
\* one) carries a tag of the monitor's active tag-set
SelVisible ==
    \A m \in 1..Len(mons) :
        mons[m].sel # NULL =>
            BitAnd(cl[mons[m].sel].tags, ActiveTags(World, m)) # 0

\* C4: every fullscreen client is floating, has border width 0 and covers the
\* screen rectangle of the monitor it belongs to
FullscreenShape ==
    \A c \in Win :
        (cl[c].managed /\ cl[c].isfullscreen) =>
            /\ cl[c].isfloating
            /\ cl[c].bw = 0
            /\ cl[c].x = mons[cl[c].mon].mx /\ cl[c].y = mons[cl[c].mon].my
            /\ cl[c].w = mons[cl[c].mon].mw /\ cl[c].h = mons[cl[c].mon].mh

\* the handler that ran k handlers before the last one
Last(k) == hist.ops[Len(hist.ops) - k]
\* the active and the previous tag-set of the selected monitor of world S
Active(S) == ActiveTags(S, S.selmon)
Previous(S) == PrevTags(S, S.selmon)

\* the last two handlers were view(x) and view(y), y being the tag-set held
\* in the previous slot when view(y) was called
ViewPair ==
    /\ Len(hist.ops) >= 2
    /\ Last(1).op = "view" /\ Last(0).op = "view"
    /\ Last(0).arg = Previous(Last(0).pre)

\* C5 as stated: after view(x) then view(y), y the previous tag-set, the
\* active tag-set is x (its tag bits, x naming a tag at all)
ViewPairActiveX ==
    (ViewPair /\ BitAnd(Last(1).arg, TAGMASK) # 0) =>
        Active(World) = BitAnd(Last(1).arg, TAGMASK)

\* C5: after view(x) then view(y), y the previous tag-set, the active tag-set
\* is y, and x (its tag bits), if nonzero and not the tag-set active before
\* view(x), is the previous tag-set
ViewPairActiveY ==
    ViewPair =>
        /\ Active(World) = Last(0).arg
        /\ (/\ BitAnd(Last(1).arg, TAGMASK) # 0
            /\ BitAnd(Last(1).arg, TAGMASK) # Active(Last(1).pre))
           => Previous(World) = BitAnd(Last(1).arg, TAGMASK)

\* view(x) changed the tag-set and view(y) brought the earlier one back
ViewPairWitness ==
    /\ ViewPair
    /\ BitAnd(Last(1).arg, TAGMASK) # 0
    /\ BitAnd(Last(1).arg, TAGMASK) # Active(Last(1).pre)
    /\ Active(World) = Active(Last(1).pre)
    /\ Previous(World) = BitAnd(Last(1).arg, TAGMASK)

\* the handler k before the last was view(mask), mask & TAGMASK nonzero and
\* not the active tag-set
ViewFresh(k) ==
    /\ Len(hist.ops) > k
    /\ Last(k).op = "view"
    /\ BitAnd(Last(k).arg, TAGMASK) # 0
    /\ BitAnd(Last(k).arg, TAGMASK) # Active(Last(k).pre)
\* the handler k before the last was view(0)
ViewZero(k) == Len(hist.ops) > k /\ Last(k).op = "view" /\ Last(k).arg = 0

\* C6: after such a view(mask) the active tag-set is mask & TAGMASK and the
\* previous slot holds the tag-set active before; a following view(0) makes
\* that one active again; a second view(0) leaves seltags and both slots as
\* they were after view(mask)
ViewHistory ==
    /\ ViewFresh(0) =>
          /\ Active(World) = BitAnd(Last(0).arg, TAGMASK)
          /\ Previous(World) = Active(Last(0).pre)
    /\ (ViewFresh(1) /\ ViewZero(0)) => Active(World) = Active(Last(1).pre)
    /\ (ViewFresh(2) /\ ViewZero(1) /\ ViewZero(0)) =>
          /\ mons[selmon].seltags = Last(1).pre.mons[selmon].seltags
          /\ mons[selmon].tagset = Last(1).pre.mons[selmon].tagset

\* view(mask), view(0), view(0) ran on a monitor showing a client
ViewHistoryWitness ==
    /\ ViewFresh(2) /\ ViewZero(1) /\ ViewZero(0)
    /\ Active(World) # Previous(World)
    /\ mons[selmon].sel # NULL

\* the last two handlers were focusstack(+1) and focusstack(-1), a client
\* being selected on the selected monitor before the first
FocusPair ==
    /\ Len(hist.ops) >= 2
    /\ Last(1).op = "focusstack" /\ Last(1).arg = 1
    /\ Last(0).op = "focusstack" /\ Last(0).arg = -1
    /\ Last(1).c # NULL

\* C7: focusstack(+1) followed at once by focusstack(-1) leaves the client
\* selected that was selected before
FocusReturns == FocusPair => mons[selmon].sel = Last(1).c

\* requested geometries
HintGeoms == {Rect(x, y, w, 10) : x \in {-50, 0}, y \in {0, 50}, w \in {20, 100}}

\* applysizehints() applied to the geometry r it returned
hintsagain(S, c, r, interact) == applysizehints(S, c, r.x, r.y, r.w, r.h, interact)
\* the geometry in what applysizehints() returned
Geom(r) == [x |-> r.x, y |-> r.y, w |-> r.w, h |-> r.h]

\* C8: applysizehints() applied to the geometry it returned, with the same
\* client state and interact flag, returns that geometry
HintsIdempotent ==
    \A c \in Win : cl[c].managed =>
        \A g \in HintGeoms : \A interact \in BOOLEAN :
            Geom(hintsagain(World, c,
                            applysizehints(World, c, g.x, g.y, g.w, g.h, interact),
                            interact))
                = Geom(applysizehints(World, c, g.x, g.y, g.w, g.h, interact))

\* the outer rectangles (client area plus border) of c and d do not overlap
Apart(S, c, d) ==
    \/ S.cl[c].x + WIDTH(S, c) <= S.cl[d].x
    \/ S.cl[d].x + WIDTH(S, d) <= S.cl[c].x
    \/ S.cl[c].y + HEIGHT(S, c) <= S.cl[d].y
    \/ S.cl[d].y + HEIGHT(S, d) <= S.cl[c].y

\* the outer rectangle of c lies inside the work area of monitor m
Inside(S, c, m) ==
    /\ S.mons[m].wx <= S.cl[c].x
    /\ S.cl[c].x + WIDTH(S, c) <= S.mons[m].wx + S.mons[m].ww
    /\ S.mons[m].wy <= S.cl[c].y
    /\ S.cl[c].y + HEIGHT(S, c) <= S.mons[m].wy + S.mons[m].wh

\* in world S the tiled clients of monitor m do not overlap and lie inside
\* the work area
Tiling(S, m) ==
    \A c \in SeqToSet(TiledList(S, m)) :
        /\ Inside(S, c, m)
        /\ \A d \in SeqToSet(TiledList(S, m)) \ {c} : Apart(S, c, d)

\* C9: after tile(m) with at least one visible non-floating client, the
\* outer rectangles of those clients are pairwise non-overlapping and lie
\* inside m's work area
TileDisjoint ==
    \A m \in 1..Len(mons) :
        TiledList(World, m) # <<>> => Tiling(tile(World, m), m)

\* the world the handler k before the last one left
Post(k) == IF k = 0 THEN World ELSE Last(k - 1).pre

\* the last n handlers were fullscreen requests for client c (_NET_WM_STATE
\* messages or togglefullscreen) that put c into fullscreen, kept it there
\* and took it out again
FullscreenRun(n, c) ==
    /\ Len(hist.ops) >= n
    /\ \A k \in 0..(n - 1) :
          /\ Last(k).op \in {"netwmstate", "togglefullscreen"}
          /\ Last(k).c = c
          /\ Post(k).cl[c].isfullscreen = (k # 0)
    /\ ~Last(n - 1).pre.cl[c].isfullscreen

\* c is floating or not, has the border width and the geometry it has in S
SameShape(S, c) ==
    /\ cl[c].isfloating = S.cl[c].isfloating
    /\ cl[c].bw = S.cl[c].bw
    /\ ClientRect(World, c) = ClientRect(S, c)

\* C10: a client that leaves fullscreen has the floating flag, border width
\* and geometry it had before it entered, whatever fullscreen requests kept
\* it in fullscreen in between
FullscreenRestores ==
    \A c \in Win : \A n \in 2..3 :
        FullscreenRun(n, c) => SameShape(Last(n - 1).pre, c)

\* the sequence s without the elements outside the set e
Restrict(s, e) == SelectSeq(s, LAMBDA x : x \in e)

\* the last handler was a configurenotify() reporting fewer distinct screens
\* than there were monitors
MonsDropped ==
    /\ Len(hist.ops) >= 1
    /\ Last(0).op = "configurenotify"
    /\ Len(uniquegeoms(Last(0).arg[1], <<>>)) < Len(Last(0).pre.mons)
\* the number of distinct screens it reported
Kept == Len(uniquegeoms(Last(0).arg[1], <<>>))
\* the world its updategeom() call left
Drained == updategeom(Last(0).pre, Last(0).arg[1], Last(0).arg[2]).S
\* the clients of the excess monitors and of the first monitor before it
Excess == {c \in Win : Last(0).pre.cl[c].managed /\ Last(0).pre.cl[c].mon > Kept}
Primary == SeqToSet(ClientList(Last(0).pre, 1))

\* c and d stand in list l in the order the flag tells: c after d, or c
\* before d
Placed(l, c, d, after) ==
    IF after THEN PosIn(l, d) < PosIn(l, c) ELSE PosIn(l, c) < PosIn(l, d)

\* after updategeom() with fewer screens than monitors: the excess monitors
\* are gone, their clients are once in both lists of the first monitor, after
\* or before the clients already there, whose order is kept
DrainPlaces(after) ==
    MonsDropped =>
        /\ Len(Drained.mons) = Kept
        /\ \A c \in Excess :
              /\ Drained.cl[c].managed /\ Drained.cl[c].mon = 1
              /\ Count(ClientList(Drained, 1), c) = 1
              /\ Count(StackList(Drained, 1), c) = 1
              /\ \A d \in Primary :
                    /\ Placed(ClientList(Drained, 1), c, d, after)
                    /\ Placed(StackList(Drained, 1), c, d, after)
        /\ Len(ClientList(Drained, 1)) = Cardinality(Excess) + Cardinality(Primary)
        /\ Len(StackList(Drained, 1)) = Cardinality(Excess) + Cardinality(Primary)
        /\ Restrict(ClientList(Drained, 1), Primary) = ClientList(Last(0).pre, 1)
        /\ Restrict(StackList(Drained, 1), Primary) = StackList(Last(0).pre, 1)

\* C11 as stated: the clients of the excess monitors are appended to the
\* first monitor's client list and focus stack
DrainAppends == DrainPlaces(TRUE)

\* C11: after updategeom() with fewer distinct screens than monitors every
\* excess monitor is freed and every client of an excess monitor is put in
\* front of the clients already in the first monitor's client list and focus
\* stack; no client is lost or duplicated and the clients already on the
\* first monitor keep their order
DrainPrepends == DrainPlaces(FALSE)

\* a monitor with two clients was removed, the first one holding a client
DrainWitness ==
    /\ MonsDropped
    /\ Cardinality(Excess) >= 2
    /\ Primary # {}
    /\ Len(mons) = Kept

\* C12: the clients of a drained monitor that held two or more have in the
\* first monitor's focus stack the relative order they had in the removed
\* monitor's focus stack
DrainKeepsStackOrder ==
    MonsDropped =>
        \A m \in (Kept + 1)..Len(Last(0).pre.mons) :
            Len(StackList(Last(0).pre, m)) >= 2 =>
                Restrict(StackList(Drained, 1), SeqToSet(StackList(Last(0).pre, m)))
                    = StackList(Last(0).pre, m)

\* the last handler was op
Ran(op) == Len(hist.ops) >= 1 /\ Last(0).op = op

\* C13: after a _NET_ACTIVE_WINDOW message for a managed client X that was
\* not visible, X's monitor has seltags flipped and an active tag-set holding
\* X's tags, X is visible, is the selected client of the selected monitor and
\* the head of its monitor's client list and focus stack; if X was visible,
\* seltags and both tag-set slots of every monitor are unchanged
ActivateShows ==
    Ran("netactivewindow") =>
        IF ISVISIBLE(Last(0).pre, Last(0).c)
        THEN \A m \in 1..Len(mons) :
                /\ mons[m].seltags = Last(0).pre.mons[m].seltags
                /\ mons[m].tagset = Last(0).pre.mons[m].tagset
        ELSE /\ cl[Last(0).c].mon = Last(0).pre.cl[Last(0).c].mon
             /\ mons[cl[Last(0).c].mon].seltags
                    = 1 - Last(0).pre.mons[cl[Last(0).c].mon].seltags
             /\ BitAnd(cl[Last(0).c].tags, ActiveTags(World, cl[Last(0).c].mon))
                    = cl[Last(0).c].tags
             /\ ISVISIBLE(World, Last(0).c)
             /\ selmon = cl[Last(0).c].mon
             /\ mons[selmon].sel = Last(0).c
             /\ mons[selmon].clients = Last(0).c
             /\ mons[selmon].stack = Last(0).c

\* the message named a client that was invisible, on a monitor that was not
\* selected, and neither the head of the client list nor of the focus stack
ActivateWitness ==
    /\ Ran("netactivewindow")
    /\ ~ISVISIBLE(Last(0).pre, Last(0).c)
    /\ Last(0).pre.cl[Last(0).c].mon # Last(0).pre.selmon
    /\ Last(0).pre.mons[Last(0).pre.cl[Last(0).c].mon].clients # Last(0).c
    /\ Last(0).pre.mons[Last(0).pre.cl[Last(0).c].mon].stack # Last(0).c
    /\ mons[selmon].sel = Last(0).c

\* the tag-sets and seltags of every monitor are those of world S
SameTagsets(S) ==
    /\ Len(mons) = Len(S.mons)
    /\ \A m \in 1..Len(mons) :
          mons[m].seltags = S.mons[m].seltags /\ mons[m].tagset = S.mons[m].tagset

\* the first visible client of the selected monitor's focus stack in world
\* S, client c left aside
TopVisibleBut(S, c) ==
    FirstWith(S, Restrict(StackList(S, S.selmon), Win \ {c}), ISVISIBLE)

\* what tag(ui) does to the selected client c of world S, ui & TAGMASK being
\* nonzero
Tagged(S, c, ui) ==
    /\ cl[c].tags = BitAnd(ui, TAGMASK)
    /\ \A d \in Win \ {c} : cl[d].tags = S.cl[d].tags
    /\ SameTagsets(S)
    /\ BitAnd(cl[c].tags, Active(World)) = 0 =>
          /\ ~ISVISIBLE(World, c)
          /\ mons[selmon].sel # c
          /\ mons[selmon].sel = TopVisibleBut(S, c)

\* C14: tag(mask) with a selected client and mask & TAGMASK nonzero sets that
\* client's tags to mask & TAGMASK and leaves the other clients' tags and the
\* tag-sets alone; if the new tags miss the active tag-set the client is
\* neither visible nor selected and the selection is the first visible
\* client of the focus stack, or null; with mask & TAGMASK zero or nothing
\* selected, tag changes nothing
TagSets ==
    Ran("tag") =>
        IF Last(0).c # NULL /\ BitAnd(Last(0).arg, TAGMASK) # 0
        THEN Tagged(Last(0).pre, Last(0).c, Last(0).arg)
        ELSE Holds(Last(0).pre)

\* tag() took the selected client out of view and the selection went to a
\* client that was not the next one in the focus stack
TagWitness ==
    /\ Ran("tag")
    /\ Last(0).c # NULL
    /\ ISVISIBLE(Last(0).pre, Last(0).c)
    /\ ~ISVISIBLE(World, Last(0).c)
    /\ mons[selmon].sel # NULL
    /\ mons[selmon].sel # Last(0).pre.cl[Last(0).c].snext

\* C15: toggleview(mask) replaces the active tag-set by its XOR with
\* mask & TAGMASK when that is nonzero and changes nothing otherwise; seltags,
\* the previous slot and every client's tags stay as they were, and the same
\* toggle applied once more gives the original active tag-set
ToggleViewXor ==
    Ran("toggleview") =>
        /\ IF BitXor(Active(Last(0).pre), BitAnd(Last(0).arg, TAGMASK)) # 0
           THEN Active(World) = BitXor(Active(Last(0).pre), BitAnd(Last(0).arg, TAGMASK))
           ELSE Holds(Last(0).pre)
        /\ selmon = Last(0).pre.selmon
        /\ \A m \in 1..Len(mons) :
              /\ mons[m].seltags = Last(0).pre.mons[m].seltags
              /\ PrevTags(World, m) = PrevTags(Last(0).pre, m)
              /\ m # selmon => mons[m].tagset = Last(0).pre.mons[m].tagset
        /\ \A c \in Win : cl[c].tags = Last(0).pre.cl[c].tags
        /\ Active(toggleview(World, Last(0).arg)) = Active(Last(0).pre)

\* toggleview() removed a tag from the active tag-set of a monitor with
\* clients, the previous slot holding another tag-set
ToggleViewWitness ==
    /\ Ran("toggleview")
    /\ Active(World) # Active(Last(0).pre)
    /\ BitAnd(Active(World), Active(Last(0).pre)) = Active(World)
    /\ Previous(World) # Active(World)
    /\ Previous(World) # Active(Last(0).pre)
    /\ mons[selmon].clients # NULL

\* the last handler was tagmon() with a selected client and a target
\* monitor other than the selected one
Sent ==
    /\ Ran("tagmon")
    /\ Last(0).c # NULL
    /\ Len(Last(0).pre.mons) > 1
    /\ dirtomon(Last(0).pre, Last(0).arg) # Last(0).pre.selmon
\* the target monitor
Target == dirtomon(Last(0).pre, Last(0).arg)

\* client c went from world S to monitor t: it heads both lists of t, is in
\* no list of another monitor and has t's active tag-set as its tags; the
\* other clients have the monitor, the tags and the client list order of S
SentTo(S, c, t) ==
    /\ cl[c].mon = t
    /\ mons[t].clients = c
    /\ mons[t].stack = c
    /\ \A m \in 1..Len(mons) \ {t} :
          c \notin SeqToSet(ClientList(World, m)) \cup SeqToSet(StackList(World, m))
    /\ cl[c].tags = ActiveTags(World, t)
    /\ ISVISIBLE(World, c)
    /\ \A d \in Win \ {c} : cl[d].mon = S.cl[d].mon /\ cl[d].tags = S.cl[d].tags
    /\ \A m \in 1..Len(mons) :
          Restrict(ClientList(World, m), Win \ {c}) = Restrict(ClientList(S, m), Win \ {c})

\* the focus stack of monitor m holds the clients outside the set e in the
\* order they have in world S
StackOrderKept(S, m, e) ==
    Restrict(StackList(World, m), Win \ e) = Restrict(StackList(S, m), Win \ e)

\* C16 as stated: after tagmon() the other clients keep their relative order
\* in the client lists and in the focus stacks
TagMonKeepsOrder ==
    Sent =>
        /\ SentTo(Last(0).pre, Last(0).c, Target)
        /\ \A m \in 1..Len(mons) : StackOrderKept(Last(0).pre, m, {Last(0).c})

\* C16: after tagmon() with a selected client c and a target monitor t other
\* than the selected one, c heads t's client list and focus stack, is in no
\* list of the source monitor and has t's active tag-set as its tags; the
\* other clients keep their monitor, their tags and their order in the client
\* lists, and their order in the focus stacks but for the client selected on
\* the source monitor afterwards, which heads that monitor's focus stack
TagMonMoves ==
    Sent =>
        /\ SentTo(Last(0).pre, Last(0).c, Target)
        /\ \A m \in 1..Len(mons) \ {selmon} : StackOrderKept(Last(0).pre, m, {Last(0).c})
        /\ selmon = Last(0).pre.selmon
        /\ StackOrderKept(Last(0).pre, selmon, {Last(0).c, mons[selmon].sel})
        /\ mons[selmon].sel # NULL => mons[selmon].stack = mons[selmon].sel

\* tagmon() sent a client to the other monitor and the two clients staying
\* behind changed places in the focus stack
TagMonWitness ==
    /\ Sent
    /\ cl[Last(0).c].mon = Target
    /\ Len(StackList(World, selmon)) >= 2
    /\ ~StackOrderKept(Last(0).pre, selmon, {Last(0).c})

\* the positions in list l of the visible tiled clients of world S
TiledAt(S, l) == {k \in 1..Len(l) : IsTiled(S, l[k])}
\* the least and the greatest number of a nonempty set of numbers
Least(e) == CHOOSE k \in e : \A j \in e : k <= j
Greatest(e) == CHOOSE k \in e : \A j \in e : j <= k

\* the position of the visible tiled client that follows (dir > 0) or
\* precedes position pos in list l, the search wrapping around the end of the
\* list; 0 if there is none
Partner(S, l, pos, dir) ==
    IF TiledAt(S, l) = {} THEN 0
    ELSE IF dir > 0
    THEN IF \E k \in TiledAt(S, l) : k > pos
         THEN Least({k \in TiledAt(S, l) : k > pos})
         ELSE Least(TiledAt(S, l))
    ELSE IF \E k \in TiledAt(S, l) : k < pos
         THEN Greatest({k \in TiledAt(S, l) : k < pos})
         ELSE Greatest(TiledAt(S, l))

\* list l with the elements at positions a and b exchanged
Exchanged(l, a, b) ==
    [k \in 1..Len(l) |-> IF k = a THEN l[b] ELSE IF k = b THEN l[a] ELSE l[k]]

\* the last handler was movestack() with a selected client; MovePos is its
\* position in the client list and MoveWith that of the client to swap with
Moved == Ran("movestack") /\ Last(0).c # NULL
MoveList == ClientList(Last(0).pre, Last(0).pre.selmon)
MovePos == PosIn(MoveList, Last(0).c)
MoveWith == Partner(Last(0).pre, MoveList, MovePos, Last(0).arg)

\* every client list ends: the last client's next is NULL
ListsEnd ==
    \A m \in 1..Len(mons) :
        ClientList(World, m) # <<>> =>
            cl[ClientList(World, m)[Len(ClientList(World, m))]].next = NULL

\* C17: movestack(+1) or movestack(-1) with selected client s and a next or
\* previous visible tiled client c other than s exchanges the positions of s
\* and c in the client list and nothing else: the other clients keep their
\* positions, the list ends, and the focus stacks, the other monitors' lists
\* and the selected client are unchanged
MoveStackSwaps ==
    (Moved /\ MoveWith # 0 /\ MoveWith # MovePos) =>
        /\ selmon = Last(0).pre.selmon
        /\ ClientList(World, selmon) = Exchanged(MoveList, MovePos, MoveWith)
        /\ ListsEnd
        /\ mons[selmon].sel = Last(0).c
        /\ \A m \in 1..Len(mons) :
              /\ StackList(World, m) = StackList(Last(0).pre, m)
              /\ m # selmon => ClientList(World, m) = ClientList(Last(0).pre, m)

\* movestack(+1) on the last of three clients wrapped around and exchanged it
\* with the head of the list
MoveStackWitness ==
    /\ Moved
    /\ Last(0).arg = 1
    /\ Len(MoveList) = 3
    /\ MovePos = 3
    /\ MoveWith = 1
    /\ mons[selmon].clients = Last(0).c

\* every focus stack of world T holds the clients other than c in the order
\* they have in world S
StacksKeep(S, T, c) ==
    \A m \in 1..Len(S.mons) :
        Restrict(StackList(T, m), Win \ {c}) = Restrict(StackList(S, m), Win \ {c})

\* T is what focus(c) leaves of world S, c being visible: c is selected on
\* the selected monitor and heads its monitor's focus stack, the others
\* keeping their order
FocusTakes(S, c, T) ==
    /\ T.selmon = S.cl[c].mon
    /\ T.mons[T.selmon].sel = c
    /\ T.mons[T.selmon].stack = c
    /\ StacksKeep(S, T, c)

\* T is what focus(NULL) or focus() of an invisible client leaves of world S:
\* the selected client is the first visible client of the selected monitor's
\* focus stack, or NULL
FocusFalls(S, T) ==
    /\ T.selmon = S.selmon
    /\ T.mons[T.selmon].sel = FirstWith(S, StackList(S, S.selmon), ISVISIBLE)
    /\ T.mons[T.selmon].sel = FirstWith(T, StackList(T, T.selmon), ISVISIBLE)

\* the last handler was an EnterNotify for a visible client of the selected
\* monitor that was not selected: the handler is focus(c)
Entered ==
    /\ Ran("enternotify")
    /\ Last(0).c # NULL
    /\ Last(0).pre.cl[Last(0).c].mon = Last(0).pre.selmon
    /\ Last(0).pre.mons[Last(0).pre.selmon].sel # Last(0).c
    /\ ISVISIBLE(Last(0).pre, Last(0).c)

\* C18: after focus(c) with c visible, c is the selected client of the
\* selected monitor and the head of its monitor's focus stack, the other
\* clients of the stack keeping their order; after focus(NULL) or focus() of
\* an invisible client the selected client is the first visible client of
\* the selected monitor's focus stack, or NULL.  focus() is applied to every
\* state reached, for every client and NULL, and by EnterNotify
FocusSelects ==
    /\ \A c \in Managed :
          IF ISVISIBLE(World, c)
          THEN FocusTakes(World, c, focus(World, c))
          ELSE FocusFalls(World, focus(World, c))
    /\ FocusFalls(World, focus(World, NULL))
    /\ Entered => FocusTakes(Last(0).pre, Last(0).c, World)

\* EnterNotify focused the last of three clients of the focus stack
FocusWitness ==
    /\ Entered
    /\ Len(StackList(World, selmon)) = 3
    /\ StackList(Last(0).pre, selmon)[3] = Last(0).c
    /\ mons[selmon].stack = Last(0).c
    /\ mons[selmon].sel = Last(0).c

\* every client list and focus stack holds the clients other than c in the
\* order they have in world S
ListsKeep(S, c) ==
    /\ StacksKeep(S, World, c)
    /\ \A m \in 1..Len(S.mons) :
          Restrict(ClientList(World, m), Win \ {c}) = Restrict(ClientList(S, m), Win \ {c})

\* the last handler was manage() for a window that matches no rule, has no
\* WM_TRANSIENT_FOR and is not of fixed size
ManagedPlain ==
    /\ Ran("maprequest")
    /\ Last(0).arg.matched = {}
    /\ Last(0).arg.trans = NULL
    /\ ~cl[Last(0).c].isfixed

\* client c, new in world S, belongs to the selected monitor, has its active
\* tag-set as tags, is not floating, heads both lists and is selected, and
\* the clients of S keep their order in both lists
Placed19(S, c) ==
    /\ selmon = S.selmon
    /\ cl[c].mon = selmon
    /\ cl[c].tags = ActiveTags(S, S.selmon)
    /\ ~cl[c].isfloating
    /\ mons[selmon].clients = c
    /\ mons[selmon].stack = c
    /\ mons[selmon].sel = c
    /\ ListsKeep(S, c)

\* C19 as stated: every such window is managed as a tiled client
ManagePlainTiled == ManagedPlain => Placed19(Last(0).pre, Last(0).c)

\* C19: after manage() of a window that matches no rule, has no
\* WM_TRANSIENT_FOR, is not of fixed size, is no dialog and does not ask for
\* fullscreen, the new client belongs to the selected monitor, has its
\* active tag-set as tags, is not floating, heads the client list and the
\* focus stack and is selected; the clients already managed keep their order
\* in both lists
ManagePlainWindow ==
    (ManagedPlain /\ ~Last(0).arg.fs /\ ~Last(0).arg.dialog) =>
        Placed19(Last(0).pre, Last(0).c)

\* such a window was managed on the second monitor with two clients there
ManageWitness ==
    /\ ManagedPlain /\ ~Last(0).arg.fs /\ ~Last(0).arg.dialog
    /\ selmon = 2
    /\ Len(ClientList(World, selmon)) = 3
    /\ mons[selmon].sel = Last(0).c

\* the last handler was a DestroyNotify or a non-synthetic UnmapNotify
Gone ==
    \/ Ran("destroynotify")
    \/ Ran("unmapnotify") /\ ~Last(0).arg

\* client c is unmanaged, in no list and selected nowhere, and the other
\* clients have the monitor and the client list order of world S
Removed(S, c) ==
    /\ ~cl[c].managed
    /\ Len(mons) = Len(S.mons)
    /\ \A m \in 1..Len(mons) :
          /\ c \notin SeqToSet(ClientList(World, m)) \cup SeqToSet(StackList(World, m))
          /\ mons[m].sel # c
          /\ ClientList(World, m) = Restrict(ClientList(S, m), Win \ {c})
    /\ \A d \in Win \ {c} : cl[d].managed = S.cl[d].managed /\ cl[d].mon = S.cl[d].mon

\* a synthetic UnmapNotify changes nothing
SyntheticKeeps == (Ran("unmapnotify") /\ Last(0).arg) => Holds(Last(0).pre)

\* C20 as stated: the other clients keep their order in the client lists and
\* in the focus stacks
UnmanageKeepsOrder ==
    /\ Gone => (Removed(Last(0).pre, Last(0).c) /\ StacksKeep(Last(0).pre, World, Last(0).c))
    /\ SyntheticKeeps

\* C20: after a DestroyNotify or a non-synthetic UnmapNotify the client is in
\* no client list, in no focus stack and selected on no monitor; the other
\* clients keep their monitor, their order in the client lists and their
\* order in the focus stacks but for the client selected on the selected
\* monitor afterwards, which heads that monitor's focus stack; a synthetic
\* UnmapNotify leaves the client managed and the lists and the selection
\* unchanged
UnmanageRemoves ==
    /\ Gone =>
          /\ Removed(Last(0).pre, Last(0).c)
          /\ selmon = Last(0).pre.selmon
          /\ \A m \in 1..Len(mons) \ {selmon} :
                StackList(World, m) = Restrict(StackList(Last(0).pre, m), Win \ {Last(0).c})
          /\ Restrict(StackList(World, selmon), Win \ {mons[selmon].sel})
                = Restrict(StackList(Last(0).pre, selmon), Win \ {Last(0).c, mons[selmon].sel})
          /\ mons[selmon].sel # NULL => mons[selmon].stack = mons[selmon].sel
    /\ SyntheticKeeps

\* the selected client was unmanaged and the two clients left changed places
\* in the focus stack
UnmanageWitness ==
    /\ Gone
    /\ Last(0).pre.mons[Last(0).pre.selmon].sel = Last(0).c
    /\ Len(StackList(World, selmon)) = 2
    /\ ~StacksKeep(Last(0).pre, World, Last(0).c)

\* the last step was a turn of the loop of movemouse() or resizemouse()
InPump ==
    /\ Len(hist.ops) >= 1
    /\ Last(0).op \in {"pumpmotion", "pumpconfigurerequest", "pumpmaprequest", "pumpexpose"}

\* client d is managed or not, placed, floating and tagged as in world S
SameClient(S, d) ==
    /\ cl[d].managed = S.cl[d].managed
    /\ ClientRect(World, d) = ClientRect(S, d)
    /\ cl[d].isfloating = S.cl[d].isfloating
    /\ cl[d].tags = S.cl[d].tags

\* the lists and the selections are those of world S
SameLists(S) ==
    /\ selmon = S.selmon
    /\ Len(mons) = Len(S.mons)
    /\ \A m \in 1..Len(mons) :
          /\ ClientList(World, m) = ClientList(S, m)
          /\ StackList(World, m) = StackList(S, m)
          /\ mons[m].sel = S.mons[m].sel

\* C21: between the pointer grab and the ButtonRelease of movemouse() or
\* resizemouse(), whatever MotionNotify, ConfigureRequest, Expose or
\* MapRequest the loop takes, no client but the one under manipulation
\* changes its geometry, floating flag, tags or list position, and no client
\* is created or selected
PumpTouchesOne ==
    InPump =>
        /\ \A d \in Win \ {pump.c} : SameClient(Last(0).pre, d)
        /\ SameLists(Last(0).pre)

\* the last step was movemouse(), resizemouse() or togglefloating() with a
\* fullscreen client selected
OnFullscreen ==
    /\ Len(hist.ops) >= 1
    /\ Last(0).op \in {"mousegrab", "togglefloating"}
    /\ Last(0).c # NULL
    /\ Last(0).pre.cl[Last(0).c].isfullscreen

\* C25: with a fullscreen client selected, movemouse(), resizemouse() and
\* togglefloating() return without a pointer grab (no loop is entered) and
\* leave the client's geometry, floating flag and border width and all lists
\* as they were
FullscreenRejects == OnFullscreen => (pump.kind = "idle" /\ Holds(Last(0).pre))

\* movemouse() or resizemouse() ran on a fullscreen client, the pointer grab
\* being available, with another client managed
FullscreenRejectsWitness ==
    /\ OnFullscreen
    /\ Last(0).op = "mousegrab"
    /\ Last(0).arg[2]
    /\ Cardinality(Managed) = 2
    /\ cl[Last(0).c].isfullscreen

\* the cases the claim lists: BadWindow on any request, BadMatch on
\* SetInputFocus, BadDrawable on a drawing request, BadAccess on GrabButton
\* or GrabKey
Listed(request_code, error_code) ==
    \/ error_code = "BadWindow"
    \/ (request_code = "X_SetInputFocus" /\ error_code = "BadMatch")
    \/ (request_code \in {"X_PolyText8", "X_PolyFillRectangle", "X_PolySegment", "X_CopyArea"}
            /\ error_code = "BadDrawable")
    \/ (request_code \in {"X_GrabButton", "X_GrabKey"} /\ error_code = "BadAccess")

\* the cases either copy of xerror() lists besides
ListedToo(op, request_code, error_code) ==
    \/ (request_code = "X_ConfigureWindow" /\ error_code = "BadMatch")
    \/ (op = "xerror2" /\ request_code = "X_ChangeWindowAttributes" /\ error_code = "BadMatch")

\* the last step was the error handler
Erred == Len(hist.ops) >= 1 /\ Last(0).op \in {"xerror", "xerror2"}

\* the error was ignored: nothing changed; or it was fatal: the default
\* handler ended the program
Ignored == Holds(Last(0).pre) /\ proc = Fresh(Last(0).proc)
Fatal == proc.phase = "exit" /\ proc.out = "fatal"

\* C22 as stated: xerror() ignores an error exactly in the cases the claim
\* lists and passes every other one to the default handler
ErrorsListed ==
    Erred => IF Listed(Last(0).arg[1], Last(0).arg[2]) THEN Ignored ELSE Fatal

\* C22: xerror() ignores an error exactly in the cases the claim lists and for
\* BadMatch on ConfigureWindow (in its second copy also for BadMatch on
\* ChangeWindowAttributes), and passes every other one to the default handler
ErrorsWhitelisted ==
    Erred =>
        IF \/ Listed(Last(0).arg[1], Last(0).arg[2])
           \/ ListedToo(Last(0).op, Last(0).arg[1], Last(0).arg[2])
        THEN Ignored
        ELSE Fatal

\* BadMatch on ConfigureWindow was reported with a client managed, and the
\* program runs on
ErrorsWitness ==
    /\ Erred
    /\ Last(0).op = "xerror"
    /\ Last(0).arg = <<"X_ConfigureWindow", "BadMatch">>
    /\ Managed # {}
    /\ proc.phase = "run"

\* the requests of the last handler named req
Requests(req) == {i \in 1..Len(proc.reqs) : proc.reqs[i].req = req}

\* C23: when a handler has returned, the server grab is released and xerror()
\* is the installed error handler; killclient() on a client with
\* WM_DELETE_WINDOW sends it that message and takes no grab
GrabsReleased ==
    /\ proc.phase = "run" => (~proc.grabbed /\ proc.handler = "xerror")
    /\ (Ran("killclient") /\ Last(0).c # NULL /\ "WM_DELETE_WINDOW" \in Last(0).arg)
           => proc.reqs = <<[req |-> "XSendEvent", w |-> Last(0).c, arg |-> "WM_DELETE_WINDOW"]>>
    /\ (Ran("killclient") /\ Last(0).c # NULL /\ "WM_DELETE_WINDOW" \notin Last(0).arg)
           => \E i \in Requests("XKillClient") : proc.reqs[i].w = Last(0).c
    /\ (Ran("unmapnotify") /\ ~Last(0).arg) => Requests("XGrabServer") # {}

\* killclient() killed a client without WM_DELETE_WINDOW under a server grab
GrabsWitness ==
    /\ Ran("killclient")
    /\ Last(0).c # NULL
    /\ Last(0).arg = {"WM_TAKE_FOCUS"}
    /\ Requests("XGrabServer") # {}
    /\ Requests("XKillClient") # {}
    /\ proc.phase = "run"

\* C24: with the one argument -v the program prints its version and exits
\* with status 0; with any other arguments it prints the usage line and exits
\* with status 1; in both cases the display is not opened and run() is not
\* entered
MainExits ==
    (Ran("main") /\ Last(0).arg # <<>>) =>
        /\ proc.phase = "exit"
        /\ ~proc.opened
        /\ Holds(Blank)
        /\ IF Last(0).arg = <<"-v">>
           THEN proc.out = "version" /\ proc.status = 0
           ELSE proc.out = "usage" /\ proc.status = 1

\* C26: a ConfigureRequest from a managed client that is not floating, while
\* the layout of the client's monitor has an arrange function, leaves the
\* client's x, y, w and h as they were, on the selected monitor and on any
\* other
ConfigurePinned ==
    (/\ Ran("configurerequest")
     /\ ~Last(0).pre.cl[Last(0).c].isfloating
     /\ HasArrange(Last(0).pre, Last(0).pre.cl[Last(0).c].mon))
        => ClientRect(World, Last(0).c) = ClientRect(Last(0).pre, Last(0).c)

\* what setmfact() was asked to make of mfact, in hundredths
MfactAsked ==
    IF Last(0).arg < 100
    THEN Last(0).arg + Last(0).pre.mons[Last(0).pre.selmon].mfact
    ELSE Last(0).arg - 100

\* C27: every monitor's mfact lies within [0.05, 0.95], and setmfact() whose
\* result would lie outside, or which runs in the floating layout, leaves
\* mfact (and everything else) as it was
MfactRange ==
    /\ \A m \in 1..Len(mons) : mons[m].mfact >= 5 /\ mons[m].mfact <= 95
    /\ (/\ Ran("setmfact")
        /\ (MfactAsked < 5 \/ MfactAsked > 95 \/ ~HasArrange(Last(0).pre, Last(0).pre.selmon)))
           => Holds(Last(0).pre)

\* setmfact() was asked for 0.97 on a monitor whose mfact had been set to
\* 0.9, in a tiling layout
MfactWitness ==
    /\ Ran("setmfact")
    /\ Last(0).arg = 197
    /\ HasArrange(World, selmon)
    /\ mons[selmon].mfact = 90

\* the last step was focusmon(+1) or focusmon(-1) with two monitors or more
FocusMonRan == Ran("focusmon") /\ Len(Last(0).pre.mons) >= 2

\* C28 as stated: focusmon(+-1) does nothing with one monitor and selects
\* another monitor whenever there are two or more
FocusMonAlways ==
    /\ (Ran("focusmon") /\ Len(Last(0).pre.mons) < 2) => Holds(Last(0).pre)
    /\ FocusMonRan => selmon # Last(0).pre.selmon

\* some monitor's x origin is not that of the selected monitor of S
Beside(S) == \E m \in 1..Len(S.mons) : S.mons[m].mx # S.mons[S.selmon].mx

\* C28: focusmon(+-1) does nothing with one monitor and selects another
\* monitor whenever there are two or more and one of them has an x origin
\* other than that of the selected monitor
FocusMonMoves ==
    /\ (Ran("focusmon") /\ Len(Last(0).pre.mons) < 2) => Holds(Last(0).pre)
    /\ (FocusMonRan /\ Beside(Last(0).pre)) => selmon # Last(0).pre.selmon

\* focusmon(+1) wrapped from the rightmost of three monitors to another one
FocusMonWitness ==
    /\ FocusMonRan
    /\ Last(0).arg = 1
    /\ Len(mons) = 3
    /\ \A m \in 1..3 : mons[m].mx <= Last(0).pre.mons[Last(0).pre.selmon].mx
    /\ selmon # Last(0).pre.selmon

\* the distinct elements of the sequence s, in the order of their first
\* occurrence
RECURSIVE Distinct(_)
Distinct(s) ==
    IF s = <<>> THEN <<>>
    ELSE IF \E j \in 1..(Len(s) - 1) : s[j] = s[Len(s)]
    THEN Distinct(SubSeq(s, 1, Len(s) - 1))
    ELSE Append(Distinct(SubSeq(s, 1, Len(s) - 1)), s[Len(s)])

\* the screen rect of the Monitor record M
ScreenRect(M) == Rect(M.mx, M.my, M.mw, M.mh)

\* C29: after updategeom() with k >= 1 distinct screen geometries reported
\* there are k monitors, the i-th of which has the i-th distinct geometry as
\* its screen rect, whether monitors were added or removed
GeomReconciled ==
    Ran("configurenotify") =>
        /\ Len(mons) = Len(Distinct(Last(0).arg[1]))
        /\ \A i \in 1..Len(mons) : ScreenRect(mons[i]) = Distinct(Last(0).arg[1])[i]

\* the last step was a _NET_WM_STATE message
Messaged == Ran("clientmessage")

\* C30: after a _NET_WM_STATE message naming _NET_WM_STATE_FULLSCREEN in
\* data.l[1] or data.l[2] for a managed client, isfullscreen is true for verb
\* 1, false for verb 0 and the negation of what it was for verb 2; the message
\* for an unmanaged window changes nothing
StateVerbs ==
    /\ (/\ Messaged
        /\ Last(0).pre.cl[Last(0).c].managed
        /\ (Last(0).arg[2] \/ Last(0).arg[3]))
           => cl[Last(0).c].isfullscreen =
                  CASE Last(0).arg[1] = 1 -> TRUE
                    [] Last(0).arg[1] = 0 -> FALSE
                    [] Last(0).arg[1] = 2 -> ~Last(0).pre.cl[Last(0).c].isfullscreen
    /\ (Messaged /\ ~Last(0).pre.cl[Last(0).c].managed) => Holds(Last(0).pre)

\* a toggle message naming fullscreen in data.l[2] only took a client out of
\* fullscreen while an unmanaged window exists
StateWitness ==
    /\ Messaged
    /\ Last(0).arg = <<2, FALSE, TRUE>>
    /\ Last(0).pre.cl[Last(0).c].isfullscreen
    /\ ~cl[Last(0).c].isfullscreen
    /\ Managed # Win

\* master_count for n tiled clients on the Monitor record M: nmaster when it
\* is nonzero, min(max(n/2, 1), dynamic_max) otherwise
MasterCount(M, n) ==
    IF M.nmaster # 0 THEN M.nmaster ELSE MIN(MAX(n \div 2, 1), M.nmaster_dynamic_max)

\* the width of the master column: ww*mfact when n > master_count, else ww
ColumnWidth(M, n) ==
    IF n > MasterCount(M, n) THEN (M.ww * M.mfact) \div 100 ELSE M.ww

\* in world T the k-th of the n tiled clients l of monitor m stands at the
\* left edge of the master column if k <= min(n, master_count), at that of
\* the stack column otherwise
InColumn(T, m, l, k) ==
    T.cl[l[k]].x =
        IF k <= MIN(Len(l), MasterCount(T.mons[m], Len(l)))
        THEN T.mons[m].wx + T.gappx
        ELSE T.mons[m].wx + ColumnWidth(T.mons[m], Len(l)) + T.gappx

\* the width of the column of the k-th client less the gaps
SlotWidth(T, m, l, k) ==
    IF k <= MIN(Len(l), MasterCount(T.mons[m], Len(l)))
    THEN ColumnWidth(T.mons[m], Len(l)) - 2 * T.gappx
    ELSE T.mons[m].ww - ColumnWidth(T.mons[m], Len(l)) - 2 * T.gappx

\* ... and is as wide as its column less the gaps, when that leaves the
\* window more than the bar's height
FillsColumn(T, m, l, k) ==
    SlotWidth(T, m, l, k) - 2 * T.cl[l[k]].bw >= BarHeight
        => WIDTH(T, l[k]) = SlotWidth(T, m, l, k)

\* C31: tile() places the first min(n, master_count) tiled clients, in the
\* order of the client list, in the master column and the others in the
\* stack column; the master column is ww*mfact wide when n > master_count and
\* ww otherwise
TileColumns ==
    \A m \in 1..Len(mons) : \A k \in 1..Len(TiledList(World, m)) :
        /\ InColumn(tile(World, m), m, TiledList(World, m), k)
        /\ FillsColumn(tile(World, m), m, TiledList(World, m), k)

\* three tiled clients on a monitor with nmaster 2 and mfact 0.6: two in the
\* master column, one in the stack column
TileWitness ==
    /\ Len(TiledList(World, selmon)) = 3
    /\ mons[selmon].nmaster = 2
    /\ mons[selmon].mfact = 60
    /\ cl[TiledList(World, selmon)[2]].x = mons[selmon].wx + gappx
    /\ cl[TiledList(World, selmon)[3]].x = mons[selmon].wx + (mons[selmon].ww * 60) \div 100 + gappx

\* the last step was manage() of a window whose outer size, with the
\* configured border, does not exceed the screen size of its monitor
ManagedFitting ==
    /\ Ran("maprequest")
    /\ Last(0).arg.wa.width + 2 * borderpx <= mons[cl[Last(0).c].mon].mw
    /\ Last(0).arg.wa.height + 2 * borderpx <= mons[cl[Last(0).c].mon].mh

\* the rectangle of c with its border lies within the screen rect of its
\* monitor
OnScreen(c) ==
    /\ mons[cl[c].mon].mx <= cl[c].x
    /\ cl[c].x + WIDTH(World, c) <= mons[cl[c].mon].mx + mons[cl[c].mon].mw
    /\ mons[cl[c].mon].my <= cl[c].y
    /\ cl[c].y + HEIGHT(World, c) <= mons[cl[c].mon].my + mons[cl[c].mon].mh

\* C32: after manage() of a window whose outer size does not exceed its
\* monitor's screen size, the client's rectangle with its border lies within
\* the monitor's screen rect, wherever the window said it was
ManageFits == ManagedFitting => OnScreen(Last(0).c)

\* the last step was updategeom() (from configurenotify()) and it added a
\* monitor, removed one or changed the screen rect of one
GeomChanged ==
    /\ Ran("configurenotify")
    /\ \/ Len(mons) # Len(Last(0).pre.mons)
       \/ \E i \in 1..Len(mons) : ScreenRect(mons[i]) # ScreenRect(Last(0).pre.mons[i])

\* C33: updategeom() returns true and makes the monitor under the pointer
\* the selected one whenever it added a monitor, changed a monitor's rect or
\* removed a monitor, one without clients included
GeomReports ==
    GeomChanged =>
        /\ updategeom(Last(0).pre, Last(0).arg[1], Last(0).arg[2]).dirty
        /\ Last(0).arg[2] \in 1..Len(mons) => selmon = Last(0).arg[2]

\* C34: on every monitor seltags is 0 or 1 and both tag-sets are nonzero
\* and have no bit outside TAGMASK
TagsetsValid ==
    \A m \in 1..Len(mons) :
        /\ mons[m].seltags \in {0, 1}
        /\ \A k \in 1..2 :
              /\ mons[m].tagset[k] # 0
              /\ BitAnd(mons[m].tagset[k], TAGMASK) = mons[m].tagset[k]

\* shiftview() left a monitor with seltags 1 and two different tag-sets, a
\* client being managed
TagsetsWitness ==
    /\ Ran("shiftview")
    /\ mons[selmon].seltags = 1
    /\ mons[selmon].tagset[1] # mons[selmon].tagset[2]
    /\ Managed # {}

\* the positions below len of the bits of m
Bits(m, len) == {k \in 0..(len - 1) : (m \div Pow2(k)) % 2 = 1}

\* r is m (a mask within len bits) rotated by d positions within len bits,
\* and has no other bit
Rotated(r, m, d, len) ==
    /\ r < Pow2(len)
    /\ Bits(r, len) = {(k + d + len) % len : k \in Bits(m, len)}

\* the last step was shiftview()
Shifted == Ran("shiftview")

\* C39: shiftview(d) with 1 <= |d| < number of tags makes the active tag-set
\* the previous one rotated by d within the tag count: as many tags are
\* selected, none outside TAGMASK, and shiftview(-d) after shiftview(d)
\* restores the active tag-set.  The rotation is checked for the tag counts
\* up to MaxTagCount besides.
ShiftRotates ==
    /\ Shifted =>
          /\ Rotated(Active(World), Active(Last(0).pre), Last(0).arg, NumTags)
          /\ Cardinality(Bits(Active(World), NumTags))
                 = Cardinality(Bits(Active(Last(0).pre), NumTags))
          /\ BitAnd(Active(World), TAGMASK) = Active(World)
          /\ \A len \in 2..MaxTagCount : \A m \in 1..(Pow2(len) - 1) :
                \A d \in (1 - len)..(len - 1) :
                    d # 0 => Rotated(BitAnd(shiftbits(m, d, len), Pow2(len) - 1), m, d, len)
    /\ (/\ Len(hist.ops) >= 2
        /\ Last(0).op = "shiftview"
        /\ Last(1).op = "shiftview"
        /\ Last(0).arg = -Last(1).arg)
           => Active(World) = Active(Last(1).pre)

\* shiftview(+1) and then shiftview(-1) ran on a monitor showing one tag and
\* holding a client
ShiftWitness ==
    /\ Len(hist.ops) >= 2
    /\ Last(0).op = "shiftview" /\ Last(0).arg = -1
    /\ Last(1).op = "shiftview" /\ Last(1).arg = 1
    /\ Active(Last(1).pre) = 1
    /\ Active(Last(0).pre) = 2
    /\ Active(World) = 1
    /\ mons[selmon].clients # NULL

\* C35: selmon is a monitor of the monitor list, prevmon is NULL or a monitor
\* of the list, and the sel of every monitor is NULL or a client of that
\* monitor's client list
PointersValid ==
    /\ selmon \in 1..Len(mons)
    /\ prevmon = NULL \/ prevmon \in 1..Len(mons)
    /\ \A m \in 1..Len(mons) :
          mons[m].sel = NULL \/ mons[m].sel \in SeqToSet(ClientList(World, m))

\* updategeom() freed the selected monitor, which held the selected client
\* and was reached by focusmon(), and the first monitor has a selected client
PointersWitness ==
    /\ Ran("configurenotify")
    /\ Last(0).pre.selmon > Len(mons)
    /\ Last(0).pre.prevmon # NULL
    /\ Last(0).pre.mons[Last(0).pre.selmon].sel # NULL
    /\ mons[selmon].sel # NULL

\* C36: if the selected monitor has a client visible under its active
\* tag-set, its selected client is the first visible client of its focus
\* stack
SelFirstVisible ==
    TopVisible(World, selmon) # NULL => mons[selmon].sel = TopVisible(World, selmon)

\* C37: when swapfocus() takes the selection from a client, that client is
\* recorded in prevclient; swapfocus() changes the selection only to the
\* client prevclient recorded, and only if the selected monitor's client list
\* holds it; when prevclient is NULL, points at a client that was unmanaged
\* or at one of another monitor, swapfocus() changes nothing and reads
\* through no client pointer that is NULL
SwapFocusSafe ==
    Ran("swapfocus") =>
        /\ (/\ Last(0).pre.mons[Last(0).pre.selmon].sel # NULL
            /\ mons[selmon].sel # Last(0).pre.mons[Last(0).pre.selmon].sel)
               => prevclient = Last(0).pre.mons[Last(0).pre.selmon].sel
        /\ mons[selmon].sel # Last(0).pre.mons[Last(0).pre.selmon].sel
               => /\ mons[selmon].sel = Last(0).pre.prevclient
                  /\ Last(0).pre.prevclient
                         \in SeqToSet(ClientList(Last(0).pre, Last(0).pre.selmon))
        /\ Last(0).pre.prevclient \notin SeqToSet(ClientList(Last(0).pre, Last(0).pre.selmon))
               => /\ World = Last(0).pre
                  /\ ~swapfocusnull(Last(0).pre)
                  /\ proc.phase = "run"

\* C38: whenever no loop of movemouse() or resizemouse() is running (each
\* call of them has returned), the pointer is not grabbed
PointerReleased == pump.kind = "idle" => ~proc.pointer

\* C40: after quit() run() dispatches no event, the next step being the
\* end of main(); cleanup() then ends with every client unmanaged, the client
\* list and the focus stack of every monitor empty before the monitors are
\* freed, and no monitor left
QuitCleans ==
    /\ (Len(hist.ops) >= 2 /\ Last(1).op = "quit") => Last(0).op = "cleanup"
    /\ Ran("cleanup") =>
          /\ \A c \in Win : ~cl[c].managed
          /\ \A m \in 1..Len(Last(0).pre.mons) :
                /\ cleanupunmanage(Last(0).pre, Last(0).proc).S.mons[m].clients = NULL
                /\ cleanupunmanage(Last(0).pre, Last(0).proc).S.mons[m].stack = NULL
                /\ cleanupunmanage(Last(0).pre, Last(0).proc).S.mons[m].sel = NULL
          /\ Len(mons) = 0
          /\ proc.phase = "exit"

\* quit() and cleanup() ran with two monitors, every window managed, clients
\* on both monitors and one of them not visible
QuitWitness ==
    /\ Len(hist.ops) >= 2
    /\ Last(1).op = "quit"
    /\ Last(0).op = "cleanup"
    /\ Len(Last(0).pre.mons) = 2
    /\ \A c \in Win : Last(0).pre.cl[c].managed
    /\ \A m \in 1..2 : Last(0).pre.mons[m].clients # NULL
    /\ \E c \in Win : ~ISVISIBLE(Last(0).pre, c)
    /\ Len(mons) = 0

====
